---- MODULE Spec2Model ----
(***************************************************************************)
(* Simulation core of the NOTLIFE arcade shooter (src/game): the Player,   *)
(* the particle system, the collision passes, the wave and spawn systems   *)
(* and the homing missile, as state machines over integer quantities.      *)
(*                                                                         *)
(* Units.  Times are integer milliseconds: pygame.time.get_ticks() is      *)
(* `now`, and a delta_time of x seconds is the integer 1000*x.  The        *)
(* player's fire_rate and speed are multiplied by the float factors 0.85   *)
(* and 1.15 on upgrade; they are kept exactly as integers scaled by        *)
(* UpgScale = 20^(MaxLevel-1) (0.85 = 17/20, 1.15 = 23/20).  The player's   *)
(* velocity is a pair of integers in thousandths of a pixel per frame; the *)
(* player's position and the drag of handle_input are not modelled.        *)
(***************************************************************************)
EXTENDS Integers, Sequences, FiniteSets, TLC

VARIABLES
    now,        \* pygame.time.get_ticks(), ms
    player,     \* the Player object's fields
    last,       \* history: the last operation called, its argument and its result
    err,        \* "none", or the exception that ended the program
    ps,         \* the ParticleSystem: its particle list and its emitter list
    wave,       \* the WaveSystem object's fields
    game,       \* the NotLifeGame object's score and sprite groups
    spawn,      \* the SpawnSystem's inputs and the enemy type it drew
    missile,    \* a HomingMissile and its target
    sm          \* the StateManager object's fields

vars == <<now, player, last, err, ps, wave, game, spawn, missile, sm>>

\* the objects a specification of one component leaves out
Idle == [ unused |-> TRUE ]

(***************************************************************************)
(* Bounds of the model                                                     *)
(***************************************************************************)
MaxLevel == 3
MaxTime == 4000

(***************************************************************************)
(* core/settings.py                                                        *)
(***************************************************************************)
PLAYER_SPEED == 7
PLAYER_HEALTH == 100
PLAYER_SHIELD == 50
PLAYER_SHOOT_COOLDOWN == 150
PLAYER_INVULNERABILITY_TIME == 1000
BULLET_DAMAGE == 25
LEVEL_UP_EXP == 100

Min(a, b) == IF a <= b THEN a ELSE b
Max(a, b) == IF a >= b THEN a ELSE b

RECURSIVE Pow(_, _)
Pow(b, n) == IF n = 0 THEN 1 ELSE b * Pow(b, n - 1)

\* scale of the fixed-point fire_rate and speed
UpgScale == Pow(20, MaxLevel - 1)

UpgradeTypes == {"damage", "fire_rate", "health", "shield", "speed"}

(***************************************************************************)
(* entities/player.py                                                      *)
(***************************************************************************)
\* Player.__init__
NewPlayer ==
    [ max_health |-> PLAYER_HEALTH, health |-> PLAYER_HEALTH,
      max_shield |-> PLAYER_SHIELD, shield |-> PLAYER_SHIELD,
      damage |-> BULLET_DAMAGE,
      fire_rate |-> PLAYER_SHOOT_COOLDOWN * UpgScale,
      speed |-> PLAYER_SPEED * UpgScale,
      level |-> 1, experience |-> 0, experience_to_level |-> LEVEL_UP_EXP,
      skill_points |-> 0,
      last_shot_time |-> 0, last_hit_time |-> 0,
      invulnerable |-> FALSE,
      shield_regen_timer |-> 0, hit_flash_timer |-> 0,
      velocity |-> <<0, 0>> ]

\* take_damage with the damage taken from health before the shield
take_damage_health_first(p, damage, t) ==
    IF p.invulnerable THEN p
    ELSE [ p EXCEPT
             !.health = p.health - damage,
             !.hit_flash_timer = IF damage > 0 THEN 300 ELSE p.hit_flash_timer,
             !.invulnerable = TRUE,
             !.last_hit_time = t,
             !.shield_regen_timer = 0 ]

\* take_damage without the early return, the window restarted by every hit
take_damage_restart_window(p, damage, t) ==
    LET shield_damage == IF p.invulnerable THEN 0 ELSE Min(damage, p.shield)
        rest == IF p.invulnerable THEN 0 ELSE damage - shield_damage
    IN  [ p EXCEPT
            !.shield = p.shield - shield_damage,
            !.health = IF rest > 0 THEN p.health - rest ELSE p.health,
            !.hit_flash_timer = IF rest > 0 THEN 300 ELSE p.hit_flash_timer,
            !.invulnerable = TRUE,
            !.last_hit_time = t,
            !.shield_regen_timer = 0 ]

\* take_damage opening the window only when health was hit
take_damage_window_on_health_only(p, damage, t) ==
    IF p.invulnerable THEN p
    ELSE
        LET shield_damage == Min(damage, p.shield)
            rest == damage - shield_damage
        IN  [ p EXCEPT
                !.shield = p.shield - shield_damage,
                !.health = IF rest > 0 THEN p.health - rest ELSE p.health,
                !.hit_flash_timer = IF rest > 0 THEN 300 ELSE p.hit_flash_timer,
                !.invulnerable = rest > 0,
                !.last_hit_time = IF rest > 0 THEN t ELSE p.last_hit_time,
                !.shield_regen_timer = IF rest > 0 THEN 0 ELSE p.shield_regen_timer ]

\* Player.take_damage at clock t
take_damage(p, damage, t) ==
    IF p.invulnerable THEN p
    ELSE
        LET shield_damage == Min(damage, p.shield)
            rest == damage - shield_damage
        IN  [ p EXCEPT
                !.shield = p.shield - shield_damage,
                !.health = IF rest > 0 THEN p.health - rest ELSE p.health,
                !.hit_flash_timer = IF rest > 0 THEN 300 ELSE p.hit_flash_timer,
                !.invulnerable = TRUE,
                !.last_hit_time = t,
                !.shield_regen_timer = 0 ]

\* Player.heal
heal(p, amount) == [ p EXCEPT !.health = Min(p.max_health, p.health + amount) ]

\* int(LEVEL_UP_EXP * LEVEL_UP_MULTIPLIER ** (level - 1)), LEVEL_UP_MULTIPLIER = 3/2
LevelThreshold(level) ==
    (LEVEL_UP_EXP * Pow(3, level - 1)) \div Pow(2, level - 1)

\* level_up without the restoring of health and shield
level_up_unrestored(p) ==
    [ p EXCEPT
        !.level = p.level + 1,
        !.skill_points = p.skill_points + 1,
        !.experience_to_level = LevelThreshold(p.level + 1) ]

\* Player.level_up
level_up(p) ==
    [ p EXCEPT
        !.level = p.level + 1,
        !.skill_points = p.skill_points + 1,
        !.experience_to_level = LevelThreshold(p.level + 1),
        !.health = p.max_health,
        !.shield = p.max_shield ]

\* the loop with a strict comparison
RECURSIVE ExperienceLoopStrict(_)
ExperienceLoopStrict(p) ==
    IF p.experience > p.experience_to_level
    THEN ExperienceLoopStrict(level_up([ p EXCEPT !.experience = p.experience - p.experience_to_level ]))
    ELSE p

\* the while loop of Player.add_experience
RECURSIVE ExperienceLoop(_)
ExperienceLoop(p) ==
    IF p.experience >= p.experience_to_level
    THEN ExperienceLoop(level_up([ p EXCEPT !.experience = p.experience - p.experience_to_level ]))
    ELSE p

\* Player.add_experience
add_experience(p, amount) ==
    ExperienceLoop([ p EXCEPT !.experience = p.experience + amount ])

\* apply_upgrade refusing only a negative balance
apply_upgrade_off_by_one(p, upgrade_type) ==
    IF p.skill_points < 0 THEN [ p |-> p, ret |-> FALSE ]
    ELSE [ p |-> [ p EXCEPT !.skill_points = p.skill_points - 1 ], ret |-> TRUE ]

\* Player.apply_upgrade: the player afterwards and the value returned
apply_upgrade(p, upgrade_type) ==
    IF p.skill_points <= 0 THEN [ p |-> p, ret |-> FALSE ]
    ELSE
        LET q ==
              CASE upgrade_type = "damage" ->
                     [ p EXCEPT !.damage = (p.damage * 12) \div 10 ]
                [] upgrade_type = "fire_rate" ->
                     [ p EXCEPT !.fire_rate = Max(50 * UpgScale, (p.fire_rate * 17) \div 20) ]
                [] upgrade_type = "health" ->
                     [ p EXCEPT !.max_health = (p.max_health * 13) \div 10,
                                !.health = (p.max_health * 13) \div 10 ]
                [] upgrade_type = "shield" ->
                     [ p EXCEPT !.max_shield = (p.max_shield * 5) \div 4,
                                !.shield = (p.max_shield * 5) \div 4 ]
                [] upgrade_type = "speed" ->
                     [ p EXCEPT !.speed = (p.speed * 23) \div 20 ]
        IN  [ p |-> [ q EXCEPT !.skill_points = p.skill_points - 1 ], ret |-> TRUE ]

\* Player.update regenerating the shield without the wait
player_update_no_grace(p, delta_time, t) ==
    LET inv == IF p.invulnerable /\ t - p.last_hit_time > PLAYER_INVULNERABILITY_TIME
               THEN FALSE ELSE p.invulnerable
        timer == p.shield_regen_timer + delta_time
        regen == p.shield < p.max_shield
    IN  [ p EXCEPT
            !.invulnerable = inv,
            !.shield = IF regen THEN Min(p.max_shield, p.shield + 5) ELSE p.shield,
            !.shield_regen_timer = IF regen THEN 0 ELSE timer,
            !.hit_flash_timer = IF p.hit_flash_timer > 0
                                THEN p.hit_flash_timer - delta_time
                                ELSE p.hit_flash_timer ]

\* Player.update, timers only, at clock t
player_update(p, delta_time, t) ==
    LET inv == IF p.invulnerable /\ t - p.last_hit_time > PLAYER_INVULNERABILITY_TIME
               THEN FALSE ELSE p.invulnerable
        timer == p.shield_regen_timer + delta_time
        regen == timer >= 3000 /\ p.shield < p.max_shield
    IN  [ p EXCEPT
            !.invulnerable = inv,
            !.shield = IF regen THEN Min(p.max_shield, p.shield + 5) ELSE p.shield,
            !.shield_regen_timer = IF regen THEN 0 ELSE timer,
            !.hit_flash_timer = IF p.hit_flash_timer > 0
                                THEN p.hit_flash_timer - delta_time
                                ELSE p.hit_flash_timer ]

(***************************************************************************)
(* The Player driven by an arbitrary caller                                *)
(***************************************************************************)
DamageAmounts == {0, 30, 80}
HealAmounts == {20}
ExperienceAmounts == {100, 400}
DeltaTimes == {1000, 2000}

NoOp == [ op |-> "init", arg |-> 0, kind |-> "", ret |-> FALSE ]

PlayerInit ==
    /\ now = 0
    /\ player = NewPlayer
    /\ last = NoOp
    /\ err = "none"
    /\ ps = Idle /\ wave = Idle /\ game = Idle /\ spawn = Idle /\ missile = Idle /\ sm = Idle

TakeDamage ==
    \E d \in DamageAmounts :
        /\ player' = take_damage(player, d, now)
        /\ last' = [ op |-> "take_damage", arg |-> d, kind |-> "", ret |-> FALSE ]
        /\ UNCHANGED <<now, err, ps, wave, game, spawn, missile, sm>>

Heal ==
    \E a \in HealAmounts :
        /\ player' = heal(player, a)
        /\ last' = [ op |-> "heal", arg |-> a, kind |-> "", ret |-> FALSE ]
        /\ UNCHANGED <<now, err, ps, wave, game, spawn, missile, sm>>

AddExperience ==
    \E e \in ExperienceAmounts :
        /\ add_experience(player, e).level <= MaxLevel
        /\ player' = add_experience(player, e)
        /\ last' = [ op |-> "add_experience", arg |-> e, kind |-> "", ret |-> FALSE ]
        /\ UNCHANGED <<now, err, ps, wave, game, spawn, missile, sm>>

ApplyUpgrade ==
    \E u \in UpgradeTypes :
        /\ player' = apply_upgrade(player, u).p
        /\ last' = [ op |-> "apply_upgrade", arg |-> 0, kind |-> u,
                     ret |-> apply_upgrade(player, u).ret ]
        /\ UNCHANGED <<now, err, ps, wave, game, spawn, missile, sm>>

\* one frame: the clock advances by the frame's delta, then Player.update runs
PlayerUpdate ==
    \E dt \in DeltaTimes :
        /\ now + dt <= MaxTime
        /\ now' = now + dt
        /\ player' = player_update(player, dt, now + dt)
        /\ last' = [ op |-> "update", arg |-> dt, kind |-> "", ret |-> FALSE ]
        /\ UNCHANGED <<err, ps, wave, game, spawn, missile, sm>>

PlayerNext == TakeDamage \/ Heal \/ AddExperience \/ ApplyUpgrade \/ PlayerUpdate

SpecPlayer == PlayerInit /\ [][PlayerNext]_vars

(***************************************************************************)
(* Properties of the Player                                                *)
(***************************************************************************)
\* C1: a take_damage(d) call made while the player is not invulnerable leaves
\* shield = max(0, s - d) and health = h - max(0, d - s): the shield absorbs
\* the damage first and only the remainder reduces health.
C1_ShieldBeforeHealth ==
    [][ (last'.op = "take_damage" /\ ~player.invulnerable) =>
          /\ player'.shield = Max(0, player.shield - last'.arg)
          /\ player'.health = player.health - Max(0, last'.arg - player.shield) ]_vars

\* a hit of 80 on shield 50 and health 100 has just been taken
C1_Witness ==
    /\ last.op = "take_damage" /\ last.arg = 80
    /\ player.last_hit_time = now /\ now > 0
    /\ player.shield = 0 /\ player.health = 70

\* C2: take_damage called while the player is invulnerable changes no field of
\* the player: health, shield, the flag, the last-hit time and both timers.
C2_InvulnerableNoOp ==
    [][ (last'.op = "take_damage" /\ player.invulnerable) => player' = player ]_vars

\* a hit of 80 has just been refused inside the window opened by an earlier hit
C2_Witness ==
    /\ last.op = "take_damage" /\ last.arg = 80
    /\ player.invulnerable /\ player.last_hit_time < now
    /\ player.health > 0

\* C11: every take_damage call made while the player is not invulnerable
\* leaves the player invulnerable, the last-hit time at the clock and the
\* shield-regen timer at 0, also when the shield absorbs the whole amount;
\* damage 80 on health 100 and shield 50 gives shield 0 and health 70.
C11_HitOpensWindow ==
    [][ (last'.op = "take_damage" /\ ~player.invulnerable) =>
          /\ player'.invulnerable
          /\ player'.shield_regen_timer = 0
          /\ player'.last_hit_time = now
          /\ (player.health = 100 /\ player.shield = 50 /\ last'.arg = 80) =>
                (player'.shield = 0 /\ player'.health = 70) ]_vars

\* a hit of 30 has just been absorbed whole by the shield, after frames in
\* which the earlier window had closed
C11_Witness ==
    /\ last.op = "take_damage" /\ last.arg = 30
    /\ player.health = player.max_health /\ player.shield = player.max_shield - 30
    /\ player.invulnerable /\ player.shield_regen_timer = 0
    /\ player.last_hit_time = now /\ now > 0

\* C3: 0 <= shield <= max_shield and 0 <= health <= max_health after any
\* sequence of Player operations.
C3_StatsInRange ==
    /\ 0 <= player.shield /\ player.shield <= player.max_shield
    /\ 0 <= player.health /\ player.health <= player.max_health

\* int(100 * 1.5 ** (L - 1)) for L = 1..6, as Python evaluates it
C4_Thresholds == <<100, 150, 225, 337, 506, 759>>

RECURSIVE C4_Consumed(_, _)
C4_Consumed(from, to) ==
    IF from >= to THEN 0 ELSE C4_Thresholds[from] + C4_Consumed(from + 1, to)

\* C4: after add_experience(e) the experience is below the threshold in force,
\* the threshold is int(100 * 1.5^(level-1)), the level did not fall, and the
\* experience is conserved: before + e = after + the thresholds of the levels
\* left behind.
C4_ExperienceRollOver ==
    [][ last'.op = "add_experience" =>
          /\ 0 <= player'.experience
          /\ player'.experience < player'.experience_to_level
          /\ player'.level >= player.level
          /\ player'.experience_to_level = C4_Thresholds[player'.level]
          /\ player.experience + last'.arg =
                player'.experience + C4_Consumed(player.level, player'.level) ]_vars

\* one add_experience(400) took a fresh player through two levels
C4_Witness ==
    /\ last.op = "add_experience" /\ last.arg = 400
    /\ player.level = 3 /\ player.experience = 150 /\ player.skill_points = 2

\* C5: apply_upgrade with no skill point returns False and changes nothing;
\* with a skill point it returns True and spends exactly one; the balance is
\* never negative.
C5_UpgradeNeedsSkillPoint ==
    [][ /\ player'.skill_points >= 0
        /\ (last'.op = "apply_upgrade" /\ player.skill_points <= 0) =>
              (~last'.ret /\ player' = player)
        /\ (last'.op = "apply_upgrade" /\ player.skill_points > 0) =>
              (last'.ret /\ player'.skill_points = player.skill_points - 1) ]_vars

\* the only skill point was spent on damage and the next request was refused
C5_Witness ==
    /\ last.op = "apply_upgrade" /\ ~last.ret
    /\ player.skill_points = 0 /\ player.level = 2
    /\ player.damage = 30

\* C33: every level_up raises the level by 1, grants exactly one skill
\* point, sets health to max_health and shield to max_shield, and sets the
\* threshold to int(100 * 1.5^(level-1)), never below the one before.  The
\* level_up calls of a step are the ones its add_experience call makes.
C33_LevelUp ==
    [][ /\ (last'.op # "add_experience" => player'.level = player.level)
        /\ last'.op = "add_experience" =>
              /\ player'.level >= player.level
              /\ player'.skill_points - player.skill_points = player'.level - player.level
              /\ player'.experience_to_level = C4_Thresholds[player'.level]
              /\ player'.experience_to_level >= player.experience_to_level
              /\ player'.max_health = player.max_health
              /\ player'.max_shield = player.max_shield
              /\ IF player'.level > player.level
                 THEN /\ player'.health = player.max_health
                      /\ player'.shield = player.max_shield
                 ELSE /\ player'.health = player.health
                      /\ player'.shield = player.shield ]_vars

\* a player whose shield a hit of 80 had emptied has just levelled up, no
\* frame having passed since the hit
C33_Witness ==
    /\ last.op = "add_experience" /\ player.level = 2 /\ player.skill_points = 1
    /\ now = 0 /\ player.hit_flash_timer = 300
    /\ player.shield = player.max_shield /\ player.health = player.max_health

\* C34: an update does not raise the shield while less than 3 s of play
\* have passed since the last take_damage call that was not refused; the
\* first update at which 3 s have passed raises a shield below max_shield,
\* and every rise made by an update is of 5, capped at max_shield.  (Every
\* frame of this specification is a frame of play, so the play time since
\* the hit is now - last_hit_time.)
C34_ShieldRegeneration ==
    /\ [](player # Idle => player.shield <= player.max_shield)
    /\ [][ last'.op = "update" =>
             /\ player'.shield >= player.shield
             /\ player'.shield > player.shield =>
                   /\ now' - player.last_hit_time >= 3000
                   /\ player'.shield = Min(player.max_shield, player.shield + 5)
             /\ (/\ now - player.last_hit_time < 3000
                 /\ now' - player.last_hit_time >= 3000
                 /\ player.shield < player.max_shield)
                   => player'.shield > player.shield ]_vars

\* the shield a hit of 30 left at 20 has just been raised to 25 by the
\* update that ended the wait
C34_Witness ==
    /\ last.op = "update"
    /\ player.shield = 25 /\ player.max_shield = 50
    /\ player.shield_regen_timer = 0
    /\ now - player.last_hit_time >= 3000

(***************************************************************************)
(* entities/particle.py                                                    *)
(*                                                                         *)
(* A particle is its remaining lifetime in ms; its position, velocity,     *)
(* rotation, scale and max_lifetime are read by nothing                    *)
(* that decides a particle's life or the length of the list.  settings.py  *)
(* sets MAX_PARTICLES to 500; the model runs with a small capacity so that *)
(* the list can be kept as a list.  An emitter's accumulator is kept in    *)
(* thousandths of a particle: emit_rate (per second) times delta (ms).     *)
(***************************************************************************)
MAX_PARTICLES == 4
MaxEmitters == 1

Particle(lifetime) == [ lifetime |-> lifetime ]

\* add_particle admitting one particle more than the capacity
add_particle_off_by_one(particles, p) ==
    IF Len(particles) <= MAX_PARTICLES THEN Append(particles, p) ELSE particles

\* ParticleSystem.add_particle
add_particle(particles, p) ==
    IF Len(particles) < MAX_PARTICLES THEN Append(particles, p) ELSE particles

\* n successive add_particle calls, each particle's lifetime drawn from
\* `lifetimes`: the lists that can result.  Once a call changes nothing the
\* remaining calls change nothing either.
RECURSIVE AddBurst(_, _, _)
AddBurst(particles, n, lifetimes) ==
    LET next == { add_particle(particles, Particle(l)) : l \in lifetimes }
    IN  IF n = 0 \/ next = {particles} THEN {particles}
        ELSE UNION { AddBurst(q, n - 1, lifetimes) : q \in next }

\* random.uniform(0.5, 1.5) in create_explosion, ms
ExplosionLifetimes == {500, 1500}
\* random.uniform(0.2, 0.5) in create_trail, ms
TrailLifetimes == {500}
\* random.uniform(0.5 * particle_lifetime, 1.5 * particle_lifetime), ms
EmitterLifetimes == {1000}
\* the smallest count create_explosion is called with (of 8, 5 and 15) and
\* its default
ExplosionCounts == {5, 30}
\* the count of create_trail
TrailCount == 3

\* ParticleSystem.create_explosion
create_explosion(particles, count) == AddBurst(particles, count, ExplosionLifetimes)

\* ParticleSystem.create_trail
create_trail(particles) == AddBurst(particles, TrailCount, TrailLifetimes)

\* the filter of ParticleSystem.update keeping a particle whose lifetime
\* has just reached zero
RECURSIVE UpdateParticlesKeepingSpent(_, _)
UpdateParticlesKeepingSpent(particles, delta_time) ==
    IF particles = <<>> THEN <<>>
    ELSE LET p == Head(particles)
             rest == UpdateParticlesKeepingSpent(Tail(particles), delta_time)
         IN  IF p.lifetime - delta_time < 0 THEN rest
             ELSE <<[ p EXCEPT !.lifetime = p.lifetime - delta_time ]>> \o rest

\* Particle.update on every particle and the filter of ParticleSystem.update
RECURSIVE UpdateParticles(_, _)
UpdateParticles(particles, delta_time) ==
    IF particles = <<>> THEN <<>>
    ELSE LET p == Head(particles)
             rest == UpdateParticles(Tail(particles), delta_time)
         IN  IF p.lifetime - delta_time <= 0 THEN rest
             ELSE <<[ p EXCEPT !.lifetime = p.lifetime - delta_time ]>> \o rest

\* ParticleEmitter.__init__
NewEmitter(emit_rate, duration) ==
    [ emit_rate |-> emit_rate, duration |-> duration, active |-> TRUE,
      timer |-> 0, emission_accumulator |-> 0 ]

\* ParticleEmitter.update emitting in the update that ends its duration
emitter_update_parting_shot(e, delta_time) ==
    IF ~e.active THEN [ e |-> e, emitted |-> 0 ]
    ELSE
        LET timer == e.timer + delta_time
            acc == e.emission_accumulator + e.emit_rate * delta_time
        IN  [ e |-> [ e EXCEPT !.timer = timer,
                               !.active = ~(e.duration > 0 /\ timer >= e.duration),
                               !.emission_accumulator = acc % 1000 ],
              emitted |-> acc \div 1000 ]

\* ParticleEmitter.update: the emitter afterwards and the number of
\* emit_particle calls it made
emitter_update(e, delta_time) ==
    IF ~e.active THEN [ e |-> e, emitted |-> 0 ]
    ELSE
        LET timer == e.timer + delta_time
            acc == e.emission_accumulator + e.emit_rate * delta_time
        IN  IF e.duration > 0 /\ timer >= e.duration
            THEN [ e |-> [ e EXCEPT !.timer = timer, !.active = FALSE ], emitted |-> 0 ]
            ELSE [ e |-> [ e EXCEPT !.timer = timer,
                                    !.emission_accumulator = acc % 1000 ],
                   emitted |-> acc \div 1000 ]

\* the emitter loop of ParticleSystem.update from emitter i on: the
\* particle systems that can result, `kept` being the emitters still listed
RECURSIVE UpdateEmitters(_, _, _, _, _)
UpdateEmitters(emitters, i, kept, particles, delta_time) ==
    IF i > Len(emitters) THEN { [ particles |-> particles, emitters |-> kept ] }
    ELSE
        LET r == emitter_update(emitters[i], delta_time)
            keptNext == IF r.e.active THEN Append(kept, r.e) ELSE kept
        IN  UNION { UpdateEmitters(emitters, i + 1, keptNext, q, delta_time) :
                        q \in AddBurst(particles, r.emitted, EmitterLifetimes) }

\* ParticleSystem.update
particle_system_update(s, delta_time) ==
    UpdateEmitters(s.emitters, 1, <<>>, UpdateParticles(s.particles, delta_time), delta_time)

(***************************************************************************)
(* The particle system driven by an arbitrary caller                       *)
(***************************************************************************)
ParticleDeltaTimes == {500}
EmitRates == {3, 10}
EmitterDurations == {-1, 1000}

ParticleInit ==
    /\ now = 0
    /\ ps = [ particles |-> <<>>, emitters |-> <<>> ]
    /\ last = NoOp
    /\ err = "none"
    /\ player = Idle /\ wave = Idle /\ game = Idle /\ spawn = Idle /\ missile = Idle /\ sm = Idle

AddParticle ==
    \E l \in ExplosionLifetimes :
        /\ ps' = [ ps EXCEPT !.particles = add_particle(ps.particles, Particle(l)) ]
        /\ last' = [ op |-> "add_particle", arg |-> l, kind |-> "",
                     ret |-> Len(ps.particles) >= MAX_PARTICLES ]
        /\ UNCHANGED <<now, err, player, wave, game, spawn, missile, sm>>

CreateExplosion ==
    \E count \in ExplosionCounts : \E q \in create_explosion(ps.particles, count) :
        /\ ps' = [ ps EXCEPT !.particles = q ]
        /\ last' = [ op |-> "create_explosion", arg |-> count, kind |-> "", ret |-> FALSE ]
        /\ UNCHANGED <<now, err, player, wave, game, spawn, missile, sm>>

CreateTrail ==
    \E q \in create_trail(ps.particles) :
        /\ ps' = [ ps EXCEPT !.particles = q ]
        /\ last' = [ op |-> "create_trail", arg |-> TrailCount, kind |-> "", ret |-> FALSE ]
        /\ UNCHANGED <<now, err, player, wave, game, spawn, missile, sm>>

\* ParticleSystem.add_emitter
AddEmitter ==
    \E rate \in EmitRates, duration \in EmitterDurations :
        /\ Len(ps.emitters) < MaxEmitters
        /\ ps' = [ ps EXCEPT !.emitters = Append(ps.emitters, NewEmitter(rate, duration)) ]
        /\ last' = [ op |-> "add_emitter", arg |-> rate, kind |-> "", ret |-> FALSE ]
        /\ UNCHANGED <<now, err, player, wave, game, spawn, missile, sm>>

\* one frame: ParticleSystem.update with the frame's delta
ParticleSystemUpdate ==
    \E dt \in ParticleDeltaTimes : \E s \in particle_system_update(ps, dt) :
        /\ now + dt <= MaxTime
        /\ now' = now + dt
        /\ ps' = s
        /\ last' = [ op |-> "ps_update", arg |-> dt, kind |-> "",
                     ret |-> Len(s.emitters) < Len(ps.emitters),
                     gone |-> Len(ps.particles)
                                - Len(UpdateParticles(ps.particles, dt)) ]
        /\ UNCHANGED <<err, player, wave, game, spawn, missile, sm>>

\* ParticleSystem.clear
ParticleClear ==
    /\ ps' = [ particles |-> <<>>, emitters |-> <<>> ]
    /\ last' = [ op |-> "clear", arg |-> 0, kind |-> "", ret |-> FALSE ]
    /\ UNCHANGED <<now, err, player, wave, game, spawn, missile, sm>>

ParticleNext ==
    \/ AddParticle \/ CreateExplosion \/ CreateTrail
    \/ AddEmitter \/ ParticleSystemUpdate \/ ParticleClear

SpecParticles == ParticleInit /\ [][ParticleNext]_vars

\* C6: the number of live particles never exceeds MAX_PARTICLES, whatever
\* mix of add_particle, create_explosion, create_trail, emitter and update
\* steps is taken, and an add_particle call made at capacity leaves the list
\* of particles exactly as it was.
C6_ParticleCapacity ==
    [][ /\ Len(ps'.particles) <= MAX_PARTICLES
        /\ (last'.op = "add_particle" /\ Len(ps.particles) >= MAX_PARTICLES) =>
              ps'.particles = ps.particles ]_vars

\* an add_particle call has just been made on a full list while an emitter runs
C6_Witness ==
    /\ last.op = "add_particle" /\ last.ret
    /\ Len(ps.emitters) > 0
    /\ Len(ps.particles) = MAX_PARTICLES
    /\ Len(ps.emitters) > 0

\* the emitters of a list whose duration is not over delta_time later, as
\* an update by the whole units of emit_rate * delta_time leaves them
RECURSIVE C31_Running(_, _)
C31_Running(emitters, delta_time) ==
    IF emitters = <<>> THEN <<>>
    ELSE LET e == Head(emitters)
             rest == C31_Running(Tail(emitters), delta_time)
         IN  IF e.duration > 0 /\ e.timer + delta_time >= e.duration THEN rest
             ELSE <<[ e EXCEPT !.timer = e.timer + delta_time,
                               !.emission_accumulator =
                                   (e.emission_accumulator + e.emit_rate * delta_time) % 1000 ]>>
                  \o rest

\* the whole units those emitters reach in that update
RECURSIVE C31_Units(_, _)
C31_Units(emitters, delta_time) ==
    IF emitters = <<>> THEN 0
    ELSE LET e == Head(emitters)
             rest == C31_Units(Tail(emitters), delta_time)
         IN  IF e.duration > 0 /\ e.timer + delta_time >= e.duration THEN rest
             ELSE (e.emission_accumulator + e.emit_rate * delta_time) \div 1000 + rest

\* the particles of a list that have lifetime left delta_time later
C31_Surviving(particles, delta_time) ==
    Cardinality({ i \in 1..Len(particles) : particles[i].lifetime - delta_time > 0 })

\* C31: an update adds emit_rate * dt to an emitter's accumulator and emits
\* one particle per whole unit, leaving 0 <= accumulator < 1; an emitter of
\* positive duration is deactivated by the first update in which its timer
\* is >= its duration, emits nothing in it and is off the emitter list
\* after it; an emitter of duration -1 stays.
C31_EmitterLifecycle ==
    /\ [](ps # Idle =>
            \A i \in 1..Len(ps.emitters) :
                /\ ps.emitters[i].active
                /\ ps.emitters[i].emission_accumulator >= 0
                /\ ps.emitters[i].emission_accumulator < 1000
                /\ ps.emitters[i].duration > 0 => ps.emitters[i].timer < ps.emitters[i].duration)
    /\ [][ last'.op = "ps_update" =>
             /\ ps'.emitters = C31_Running(ps.emitters, last'.arg)
             /\ Len(ps'.particles) =
                    Min(MAX_PARTICLES, C31_Surviving(ps.particles, last'.arg)
                                         + C31_Units(ps.emitters, last'.arg))
             /\ \A i \in 1..Len(ps.emitters) :
                    ps.emitters[i].duration = -1 =>
                        \E j \in 1..Len(ps'.emitters) : ps'.emitters[j].duration = -1 ]_vars

\* an update has just taken an emitter whose duration ended off the list
\* while the particle list had room for what it would have emitted
C31_Witness ==
    /\ last.op = "ps_update" /\ last.ret
    /\ Len(ps.particles) < MAX_PARTICLES

\* the places in a list of the particles that have lifetime left
\* delta_time later, in the order of the list
C32_Places(particles, delta_time) ==
    { i \in 1..Len(particles) : particles[i].lifetime - delta_time > 0 }

\* the k-th smallest member of a set of places
RECURSIVE C32_Nth(_, _)
C32_Nth(places, k) ==
    LET low == CHOOSE i \in places : \A j \in places : i <= j
    IN  IF k = 1 THEN low ELSE C32_Nth(places \ {low}, k - 1)

\* C32: an update removes exactly the particles whose lifetime less dt is
\* <= 0 and keeps every other one, its lifetime reduced by dt, ahead of the
\* particles emitted in that update; every particle on the list has a
\* lifetime > 0, so a removed particle is not updated or counted again.
C32_DeadParticlesFiltered ==
    /\ [](ps # Idle => \A i \in 1..Len(ps.particles) : ps.particles[i].lifetime > 0)
    /\ [][ last'.op = "ps_update" =>
             LET places == C32_Places(ps.particles, last'.arg)
                 n == Cardinality(places)
             IN  /\ Len(ps'.particles) >= n
                 /\ last'.gone = Len(ps.particles) - n
                 /\ \A k \in 1..n :
                        ps'.particles[k].lifetime =
                            ps.particles[C32_Nth(places, k)].lifetime - last'.arg ]_vars

\* an update has just removed a spent particle and kept a younger one
C32_Witness ==
    /\ last.op = "ps_update" /\ last.gone > 0
    /\ \E i \in 1..Len(ps.particles) : ps.particles[i].lifetime = 1000

(***************************************************************************)
(* entities/enemy.py, entities/bullet.py, systems/collision_system.py      *)
(*                                                                         *)
(* A sprite group is the sequence of its sprites in insertion order, which *)
(* is the order pygame iterates it in.  Which sprites overlap is decided   *)
(* by their masks and positions; the model takes the overlaps of a frame   *)
(* as an input.  collision_system.py uses GameSettings without importing   *)
(* it, so every handler that reaches its create_explosion call raises      *)
(* NameError, after the damage it applied and before any particle is made. *)
(***************************************************************************)
MaxBullets == 2
MaxEnemies == 2
MaxSprites == 3

BULLET_LIFETIME == 2000

EnemyTypes == {"SCOUT", "FIGHTER", "BOMBER", "ELITE"}

\* Enemy._get_type_config
EnemyConfig(enemy_type) ==
    CASE enemy_type = "SCOUT" ->
           [ health |-> 40, damage |-> 15, fire_rate |-> 2000, score_value |-> 10 ]
      [] enemy_type = "FIGHTER" ->
           [ health |-> 80, damage |-> 25, fire_rate |-> 1500, score_value |-> 25 ]
      [] enemy_type = "BOMBER" ->
           [ health |-> 150, damage |-> 40, fire_rate |-> 3000, score_value |-> 50 ]
      [] enemy_type = "ELITE" ->
           [ health |-> 200, damage |-> 35, fire_rate |-> 1000, score_value |-> 100 ]

\* Enemy.__init__
NewEnemy(id, enemy_type) ==
    [ id |-> id, enemy_type |-> enemy_type,
      health |-> EnemyConfig(enemy_type).health,
      max_health |-> EnemyConfig(enemy_type).health,
      damage |-> EnemyConfig(enemy_type).damage,
      fire_rate |-> EnemyConfig(enemy_type).fire_rate,
      score_value |-> EnemyConfig(enemy_type).score_value,
      hit_flash_timer |-> 0 ]

\* Bullet.__init__ at clock t
NewBullet(id, damage, t) == [ id |-> id, damage |-> damage, spawn_time |-> t ]

\* the sprites of a group that satisfy Keep(_), in the group's order
Filter(group, Keep(_)) == SelectSeq(group, Keep)

Ids(group) == { group[i].id : i \in 1..Len(group) }

\* Enemy.take_damage without on_death: a dead enemy stays in the group
enemy_take_damage_no_death(enemies, id, damage) ==
    LET Hit(e) == IF e.id = id
                  THEN [ e EXCEPT !.health = e.health - damage, !.hit_flash_timer = 200 ]
                  ELSE e
    IN  [ i \in 1..Len(enemies) |-> Hit(enemies[i]) ]

\* Enemy.take_damage and Enemy.on_death on the enemy `id` of the group: a
\* dead enemy is killed, that is, removed from the group
enemy_take_damage(enemies, id, damage) ==
    LET Hit(e) == IF e.id = id
                  THEN [ e EXCEPT !.health = e.health - damage, !.hit_flash_timer = 200 ]
                  ELSE e
        hurt == [ i \in 1..Len(enemies) |-> Hit(enemies[i]) ]
        Alive(e) == e.id # id \/ e.health > 0
    IN  Filter(hurt, Alive)

\* Player.shoot leaving last_shot_time as it was
shoot_unstamped(p, player_bullets, id, t) ==
    IF (t - p.last_shot_time) * UpgScale >= p.fire_rate
    THEN [ player |-> p,
           player_bullets |-> Append(player_bullets, NewBullet(id, p.damage, t)) ]
    ELSE [ player |-> p, player_bullets |-> player_bullets ]

\* Player.shoot at clock t: the player and the player-bullet group afterwards
shoot(p, player_bullets, id, t) ==
    IF (t - p.last_shot_time) * UpgScale >= p.fire_rate
    THEN [ player |-> [ p EXCEPT !.last_shot_time = t ],
           player_bullets |-> Append(player_bullets, NewBullet(id, p.damage, t)) ]
    ELSE [ player |-> p, player_bullets |-> player_bullets ]

\* the kills of Bullet.update at clock t: the lifetime check, and the bounds
\* check for the bullets `outside` the screen
bullets_update(bullets, outside, t) ==
    LET Stays(b) == ~(t - b.spawn_time > BULLET_LIFETIME) /\ b.id \notin outside
    IN  Filter(bullets, Stays)

\* floor of the square root of n, searched from r upwards
RECURSIVE SqrtFrom(_, _)
SqrtFrom(n, r) == IF (r + 1) * (r + 1) > n THEN r ELSE SqrtFrom(n, r + 1)

ISqrt(n) == SqrtFrom(n, 0)

\* the push directed from the player to the enemy
push_towards_enemy(offset) ==
    LET distance == Max(1, ISqrt(offset[1] * offset[1] + offset[2] * offset[2]))
    IN  << (-offset[1] * 5000) \div distance, (-offset[2] * 5000) \div distance >>

\* the push of _handle_player_enemy for the offset <<dx, dy>> from the
\* enemy's centre to the player's, in thousandths
push(offset) ==
    LET distance == Max(1, ISqrt(offset[1] * offset[1] + offset[2] * offset[2]))
    IN  << (offset[1] * 5000) \div distance, (offset[2] * 5000) \div distance >>

\* pass 1 with groupcollide leaving the colliding bullets in their group
pass1_kept_bullets_no_kill(player_bullets, enemies, overlap) == player_bullets

\* the player bullets left in their group by the groupcollide of pass 1,
\* which kills every bullet overlapping an enemy
pass1_kept_bullets(player_bullets, enemies, overlap) ==
    LET Missed(b) == \A i \in 1..Len(enemies) : <<b.id, enemies[i].id>> \notin overlap
    IN  Filter(player_bullets, Missed)

\* CollisionSystem.check_collisions at clock t on the world w (the player
\* and the four groups), the overlaps of the frame being
\*   ov.bullet_enemy : the pairs <<player bullet, enemy>>,
\*   ov.bullet_player: the enemy bullets on the player,
\*   ov.body         : the enemies on the player, ov.offset their offset,
\*   ov.pickup       : the pickups on the player.
\* `hit` records the pairs whose handler applied damage, `passes` how many
\* of the four collide calls were reached.
check_collisions(w, ov, t) ==
    LET kept1 == pass1_kept_bullets(w.player_bullets, w.enemies, ov.bullet_enemy)
        Struck(b) == \E i \in 1..Len(w.enemies) : <<b.id, w.enemies[i].id>> \in ov.bullet_enemy
        hit1 == Filter(w.player_bullets, Struck)
        OnFirst(e) == <<hit1[1].id, e.id>> \in ov.bullet_enemy
        kept2 == LET Missed(b) == b.id \notin ov.bullet_player
                 IN  Filter(w.enemy_bullets, Missed)
        hit2 == LET Struck2(b) == b.id \in ov.bullet_player
                IN  Filter(w.enemy_bullets, Struck2)
        body == LET Touching(e) == e.id \in ov.body IN Filter(w.enemies, Touching)
        kept4 == LET Apart(k) == k.id \notin ov.pickup IN Filter(w.pickups, Apart)
    IN  IF hit1 # <<>> THEN
            \* pass 1: the first handler damages its enemy and raises
            [ w EXCEPT
                !.player_bullets = kept1,
                !.enemies = enemy_take_damage(w.enemies, Filter(w.enemies, OnFirst)[1].id,
                                              hit1[1].damage),
                !.hit = { <<hit1[1].id, Filter(w.enemies, OnFirst)[1].id>> },
                !.passes = 1,
                !.err = "NameError" ]
        ELSE IF hit2 # <<>> THEN
            \* pass 2: the first handler damages the player and raises
            [ w EXCEPT
                !.enemy_bullets = kept2,
                !.player = take_damage(w.player, hit2[1].damage, t),
                !.hit = { <<hit2[1].id, 0>> },
                !.passes = 2,
                !.err = "NameError" ]
        ELSE IF body # <<>> THEN
            \* pass 3: the first handler pushes, damages both and raises
            [ w EXCEPT
                !.player = take_damage(
                    [ w.player EXCEPT !.velocity =
                        << w.player.velocity[1] + push(ov.offset)[1],
                           w.player.velocity[2] + push(ov.offset)[2] >> ],
                    10, t),
                !.enemies = enemy_take_damage(w.enemies, body[1].id, 10 \div 2),
                !.hit = { <<0, body[1].id>> },
                !.passes = 3,
                !.err = "NameError" ]
        ELSE
            \* pass 4: the pickups touched are removed
            [ w EXCEPT !.pickups = kept4, !.hit = {}, !.passes = 4 ]

(***************************************************************************)
(* The collision system on groups filled by the game                       *)
(*                                                                         *)
(* A frame advances the clock, runs Bullet.update on both bullet groups    *)
(* and then check_collisions.  game.frame counts the frames; game.struck   *)
(* and game.damage_log are history: the player bullets killed by pass 1,   *)
(* and the pairs <<bullet, frame>> in which a bullet's handler did damage; *)
(* game.passes is the number of passes the last check_collisions reached   *)
(* and game.offset the offset of its body collision; game.hit is the pairs *)
(* whose handler it ran and game.caught the enemy bullets its pass 2 took  *)
(* out of their group.  The Player is as                                   *)
(* constructed, or one that has spent three skill points on damage, or one *)
(* on which take_damage has been called and that is still invulnerable.    *)
(***************************************************************************)
FrameDeltaTimes == {1000}
BodyOffsets == { <<0, 0>>, <<0, 20>>, <<-12, 16>> }

\* the overlaps a frame can show among the candidates S: none, one or two
Overlaps(S) == { {x, y} : x \in S, y \in S } \cup {{}}

\* a Player that has gained three levels through add_experience and spent
\* the three skill points on damage: 25 -> 30 -> 36 -> 43
VeteranPlayer ==
    LET levelled == add_experience(NewPlayer, LevelThreshold(1) + LevelThreshold(2)
                                                 + LevelThreshold(3))
        once == apply_upgrade(levelled, "damage").p
        twice == apply_upgrade(once, "damage").p
    IN  apply_upgrade(twice, "damage").p

CollisionInit ==
    /\ now = 0
    /\ player \in {NewPlayer, VeteranPlayer, take_damage(NewPlayer, 30, 0)}
    /\ game = [ enemies |-> <<>>, player_bullets |-> <<>>, enemy_bullets |-> <<>>,
                pickups |-> <<>>, score |-> 0, next_id |-> 1, frame |-> 0,
                struck |-> {}, damage_log |-> {}, passes |-> 0, offset |-> <<0, 0>>,
                hit |-> {}, caught |-> {} ]
    /\ last = NoOp
    /\ err = "none"
    /\ ps = [ particles |-> <<>>, emitters |-> <<>> ]
    /\ wave = Idle /\ spawn = Idle /\ missile = Idle /\ sm = Idle

\* _handle_continuous_input with the fire key held
Shoot ==
    /\ err = "none"
    /\ Len(game.player_bullets) < MaxBullets
    /\ game.next_id <= MaxSprites
    /\ LET r == shoot(player, game.player_bullets, game.next_id, now)
       IN  /\ player' = r.player
           /\ game' = [ game EXCEPT !.player_bullets = r.player_bullets,
                                    !.next_id = IF r.player = player THEN @ ELSE @ + 1 ]
           /\ last' = [ op |-> "shoot", arg |-> 0, kind |-> "", ret |-> r.player # player ]
    /\ UNCHANGED <<now, err, ps, wave, spawn, missile, sm>>

\* an enemy it constructed is added to the enemy group by the spawn system
SpawnEnemy ==
    \E enemy_type \in {"SCOUT", "BOMBER"} :
        /\ err = "none"
        /\ Len(game.enemies) < MaxEnemies
        /\ game.next_id <= MaxSprites
        /\ game' = [ game EXCEPT !.enemies = Append(@, NewEnemy(game.next_id, enemy_type)),
                                 !.next_id = @ + 1 ]
        /\ last' = [ op |-> "spawn", arg |-> 0, kind |-> enemy_type, ret |-> FALSE ]
        /\ UNCHANGED <<now, player, err, ps, wave, spawn, missile, sm>>

\* an enemy bullet is added to the enemy-bullet group
AddEnemyBullet ==
    \E i \in 1..Len(game.enemies) :
        /\ err = "none"
        /\ Len(game.enemy_bullets) < MaxBullets
        /\ game.next_id <= MaxSprites
        /\ game' = [ game EXCEPT
                       !.enemy_bullets = Append(@, NewBullet(game.next_id, game.enemies[i].damage, now)),
                       !.next_id = @ + 1 ]
        /\ last' = [ op |-> "add_enemy_bullet", arg |-> 0, kind |-> "", ret |-> FALSE ]
        /\ UNCHANGED <<now, player, err, ps, wave, spawn, missile, sm>>

CollisionFrame ==
    /\ err = "none"
    /\ \E dt \in FrameDeltaTimes :
        /\ now + dt <= MaxTime
        /\ now' = now + dt
        /\ last' = [ op |-> "check_collisions", arg |-> dt, kind |-> "", ret |-> FALSE ]
        /\ \E outside \in {{}} \cup { {b} : b \in Ids(game.player_bullets) \cup Ids(game.enemy_bullets) } :
           \E pb \in { bullets_update(game.player_bullets, outside, now + dt) } :
           \E eb \in { bullets_update(game.enemy_bullets, outside, now + dt) } :
           \E bullet_enemy \in Overlaps(Ids(pb) \X Ids(game.enemies)) :
           \E bullet_player \in Overlaps(Ids(eb)) :
           \E body \in Overlaps(Ids(game.enemies)) :
           \E offset \in IF body = {} THEN { <<0, 0>> } ELSE BodyOffsets :
           \E w \in { check_collisions(
                        [ player |-> player, enemies |-> game.enemies,
                          player_bullets |-> pb, enemy_bullets |-> eb,
                          pickups |-> game.pickups, hit |-> {}, passes |-> 0,
                          err |-> "none" ],
                        [ bullet_enemy |-> bullet_enemy, bullet_player |-> bullet_player,
                          body |-> body, offset |-> offset, pickup |-> {} ],
                        now + dt) } :
               /\ player' = w.player
               /\ err' = w.err
               /\ game' = [ game EXCEPT
                              !.enemies = w.enemies,
                              !.player_bullets = w.player_bullets,
                              !.enemy_bullets = w.enemy_bullets,
                              !.pickups = w.pickups,
                              !.passes = w.passes,
                              !.offset = offset,
                              !.hit = w.hit,
                              !.caught = Ids(eb) \ Ids(w.enemy_bullets),
                              !.struck = @ \cup { x[1] : x \in bullet_enemy },
                              !.damage_log = @ \cup { <<h[1], game.frame + 1>> : h \in
                                                        { x \in w.hit : x[1] \in Ids(pb) } } ]
    /\ UNCHANGED <<ps, wave, spawn, missile, sm>>

CollisionNext == Shoot \/ SpawnEnemy \/ AddEnemyBullet \/ CollisionFrame

SpecCollision == CollisionInit /\ [][CollisionNext]_vars

C19_FourPasses ==
    last.op = "check_collisions" => (game.passes = 4 /\ err = "none")

\* C27: in pass 1, for every player bullet that overlaps an enemy, the
\* bullet leaves the player-bullet group, the enemy loses exactly the
\* bullet's damage, an impact burst of particles is made, and the handler
\* returns without raising.
C27_Pass1Resolves ==
    [][ (last'.op = "check_collisions" /\ game'.struck # game.struck) =>
          /\ (game'.struck \ game.struck) \cap Ids(game'.player_bullets) = {}
          /\ \A b \in game'.struck \ game.struck : <<b, game.frame + 1>> \in game'.damage_log
          /\ Len(ps'.particles) > Len(ps.particles)
          /\ err' = "none" ]_vars

\* the change of the player's velocity in the step, in thousandths
C28_Impulse ==
    << player'.velocity[1] - player.velocity[1], player'.velocity[2] - player.velocity[2] >>

\* the step hurts exactly one enemy of the group by 5 and removes it only
\* if that leaves it no health
C28_OneEnemyHurt ==
    \E i \in 1..Len(game.enemies) :
        LET e == game.enemies[i]
        IN  /\ \A j \in 1..Len(game.enemies) :
                  j # i => \E k \in 1..Len(game'.enemies) : game'.enemies[k] = game.enemies[j]
            /\ IF e.health > 5
               THEN \E k \in 1..Len(game'.enemies) :
                       /\ game'.enemies[k].id = e.id
                       /\ game'.enemies[k].health = e.health - 5
               ELSE e.id \notin Ids(game'.enemies)

\* the player after the step is as take_damage(10) leaves it: untouched in
\* health and shield while invulnerable, else the shield first
C28_PlayerHurt ==
    IF player.invulnerable
    THEN player'.health = player.health /\ player'.shield = player.shield
    ELSE /\ player'.shield = Max(0, player.shield - 10)
         /\ player'.health = player.health - Max(0, 10 - player.shield)
         /\ player'.invulnerable

C29_EveryBulletHandled ==
    [][ last'.op = "check_collisions" =>
          /\ game'.caught \cap Ids(game'.enemy_bullets) = {}
          /\ \A b \in game'.caught : <<b, 0>> \in game'.hit
          /\ \/ player'.health = player.health /\ player'.shield = player.shield
             \/ \E d \in {10} \cup { game.enemy_bullets[i].damage :
                                        i \in 1..Len(game.enemy_bullets) } :
                   /\ player'.shield = Max(0, player.shield - d)
                   /\ player'.health = player.health - Max(0, d - player.shield) ]_vars

\* the enemies of the group before the step that the step removed
C25_Killed ==
    { game.enemies[i] : i \in { j \in 1..Len(game.enemies) :
                                  game.enemies[j].id \notin Ids(game.enemies') } }

\* C25: whenever a pass of check_collisions brings an enemy's health to
\* <= 0, the enemy's score_value is added to the score, once.
C25_KillScores ==
    [][ (last'.op = "check_collisions" /\ C25_Killed # {}) =>
            \E e \in C25_Killed : game'.score = game.score + e.score_value ]_vars

\* the damage of the handler call `h` of a step: the damage of its player
\* bullet, or the 5 of a body collision
C40_Damage(h) ==
    IF h[1] = 0 THEN 5
    ELSE (CHOOSE b \in { game.player_bullets[i] : i \in 1..Len(game.player_bullets) } :
              b.id = h[1]).damage

\* C40: within one check_collisions call Enemy.take_damage is invoked only
\* on enemies that are in the enemy group, alive, and at most once on each:
\* the enemy whose health a call brings to <= 0 is removed by it, takes no
\* further damage, and is the only enemy the call removes, also when two
\* bullets overlap it in the same frame.
C40_NoDamageAfterDeath ==
    /\ [](game # Idle => \A i \in 1..Len(game.enemies) : game.enemies[i].health > 0)
    /\ [][ last'.op = "check_collisions" =>
             \A i \in 1..Len(game.enemies) :
                LET e == game.enemies[i]
                    calls == { h \in game'.hit : h[2] = e.id }
                    after == { game'.enemies[j] : j \in { k \in 1..Len(game'.enemies) :
                                                           game'.enemies[k].id = e.id } }
                IN  /\ Cardinality(calls) <= 1
                    /\ \A h \in calls :
                          IF e.health - C40_Damage(h) <= 0
                          THEN after = {}
                          ELSE \E f \in after : f.health = e.health - C40_Damage(h)
                    /\ calls = {} => \E f \in after : f.health = e.health ]_vars

\* two bullets of 43 overlapped the only Scout in one frame: the call killed
\* it with the first and took both bullets out of their group
C40_Witness ==
    /\ last.op = "check_collisions" /\ game.passes = 1
    /\ Cardinality(game.struck) = 2
    /\ game.enemies = <<>> /\ game.player_bullets = <<>>
    /\ \E h \in game.hit : h[1] \in game.struck /\ h[2] # 0

(***************************************************************************)
(* systems/wave_system.py                                                  *)
(*                                                                         *)
(* Timers are in ms.  The difficulty is kept in tenths (1.2 is 12), the    *)
(* enemy base speed in hundredths and the spawn rate in ms.  The method    *)
(* _prepare_next_wave that _complete_wave calls is defined nowhere: the    *)
(* call raises AttributeError after the bonus has been added.              *)
(***************************************************************************)
MaxWave == 6
MaxWaveTime == 50000

WAVE_DURATION == 45000

\* WaveSystem.__init__
NewWaveSystem ==
    [ current_wave |-> 0, wave_timer |-> 0, wave_duration |-> WAVE_DURATION,
      is_wave_active |-> FALSE, wave_start_time |-> 0,
      enemies_defeated |-> 0, total_wave_enemies |-> 0,
      wave_completion_bonus |-> 100 ]

\* the enemy base stats of GameSettings as the module defines them
InitialSettings ==
    [ ENEMY_BASE_HEALTH |-> 50, ENEMY_BASE_DAMAGE |-> 10,
      ENEMY_BASE_SPEED |-> 250, ENEMY_SPAWN_RATE |-> 1500 ]

\* WaveSystem._get_wave_config: the table for waves 1-5, else the formulas
wave_config(wave_number) ==
    CASE wave_number = 1 -> [ enemy_count |-> 10, difficulty |-> 10 ]
      [] wave_number = 2 -> [ enemy_count |-> 15, difficulty |-> 12 ]
      [] wave_number = 3 -> [ enemy_count |-> 20, difficulty |-> 15 ]
      [] wave_number = 4 -> [ enemy_count |-> 18, difficulty |-> 18 ]
      [] wave_number = 5 -> [ enemy_count |-> 25, difficulty |-> 20 ]
      [] OTHER -> [ enemy_count |-> 20 + wave_number * 3,
                    difficulty |-> 10 + wave_number * 3 ]

\* WaveSystem._apply_wave_difficulty
apply_wave_difficulty(difficulty) ==
    [ ENEMY_BASE_HEALTH |-> (50 * difficulty) \div 10,
      ENEMY_BASE_DAMAGE |-> (10 * difficulty) \div 10,
      ENEMY_BASE_SPEED |-> 25 * difficulty,
      ENEMY_SPAWN_RATE |-> Max(500, 15000 \div difficulty) ]

\* WaveSystem.start_wave at clock t
start_wave(ws, wave_number, t) ==
    [ ws EXCEPT
        !.current_wave = wave_number,
        !.wave_timer = 0,
        !.is_wave_active = TRUE,
        !.enemies_defeated = 0,
        !.wave_start_time = t,
        !.total_wave_enemies = wave_config(wave_number).enemy_count ]

\* _is_wave_completed without the test of the enemy group
is_wave_completed_ignoring_enemies(ws, enemies) ==
    /\ ws.enemies_defeated >= ws.total_wave_enemies
    /\ ws.wave_timer >= 10000

\* WaveSystem._is_wave_completed
is_wave_completed(ws, enemies) ==
    /\ ws.enemies_defeated >= ws.total_wave_enemies
    /\ ws.wave_timer >= 10000
    /\ Len(enemies) = 0

\* the bonus of _complete_wave: max(0, int((wave_duration - wave_timer) * 10))
\* with the timers in seconds, plus wave_completion_bonus * current_wave
completion_bonus(ws) ==
    Max(0, (ws.wave_duration - ws.wave_timer) \div 100)
        + ws.wave_completion_bonus * ws.current_wave

\* update testing completion on the timer as it was before this frame
wave_update_test_before_advance(ws, delta_time, score, enemies) ==
    IF ~ws.is_wave_active
    THEN [ wave |-> ws, score |-> score, err |-> "none", outcome |-> "inactive" ]
    ELSE
        LET timed == [ ws EXCEPT !.wave_timer = ws.wave_timer + delta_time ]
        IN  IF is_wave_completed(ws, enemies)
            THEN [ wave |-> [ timed EXCEPT !.is_wave_active = FALSE ],
                   score |-> score + completion_bonus(timed),
                   err |-> "AttributeError", outcome |-> "completed" ]
            ELSE IF timed.wave_timer >= timed.wave_duration
            THEN [ wave |-> [ timed EXCEPT !.is_wave_active = FALSE ],
                   score |-> score, err |-> "none", outcome |-> "timeout" ]
            ELSE [ wave |-> timed, score |-> score, err |-> "none", outcome |-> "running" ]

\* update testing the timeout before the completion
wave_update_timeout_first(ws, delta_time, score, enemies) ==
    IF ~ws.is_wave_active
    THEN [ wave |-> ws, score |-> score, err |-> "none", outcome |-> "inactive" ]
    ELSE
        LET timed == [ ws EXCEPT !.wave_timer = ws.wave_timer + delta_time ]
        IN  IF timed.wave_timer >= timed.wave_duration
            THEN [ wave |-> [ timed EXCEPT !.is_wave_active = FALSE ],
                   score |-> score, err |-> "none", outcome |-> "timeout" ]
            ELSE IF is_wave_completed(timed, enemies)
            THEN [ wave |-> [ timed EXCEPT !.is_wave_active = FALSE ],
                   score |-> score + completion_bonus(timed),
                   err |-> "AttributeError", outcome |-> "completed" ]
            ELSE [ wave |-> timed, score |-> score, err |-> "none", outcome |-> "running" ]

\* update advancing the timer of an inactive wave as well
wave_update_ticking_on(ws, delta_time, score, enemies) ==
    LET timed == [ ws EXCEPT !.wave_timer = ws.wave_timer + delta_time ]
    IN  IF ~ws.is_wave_active
        THEN [ wave |-> timed, score |-> score, err |-> "none", outcome |-> "inactive" ]
        ELSE IF is_wave_completed(timed, enemies)
        THEN [ wave |-> [ timed EXCEPT !.is_wave_active = FALSE ],
               score |-> score + completion_bonus(timed),
               err |-> "AttributeError", outcome |-> "completed" ]
        ELSE IF timed.wave_timer >= timed.wave_duration
        THEN [ wave |-> [ timed EXCEPT !.is_wave_active = FALSE ],
               score |-> score, err |-> "none", outcome |-> "timeout" ]
        ELSE [ wave |-> timed, score |-> score, err |-> "none", outcome |-> "running" ]

\* WaveSystem.update: the wave system, the score and the exception afterwards;
\* `outcome` names the branch taken
wave_update(ws, delta_time, score, enemies) ==
    IF ~ws.is_wave_active
    THEN [ wave |-> ws, score |-> score, err |-> "none", outcome |-> "inactive" ]
    ELSE
        LET timed == [ ws EXCEPT !.wave_timer = ws.wave_timer + delta_time ]
        IN  IF is_wave_completed(timed, enemies)
            THEN [ wave |-> [ timed EXCEPT !.is_wave_active = FALSE ],
                   score |-> score + completion_bonus(timed),
                   err |-> "AttributeError", outcome |-> "completed" ]
            ELSE IF timed.wave_timer >= timed.wave_duration
            THEN [ wave |-> [ timed EXCEPT !.is_wave_active = FALSE ],
                   score |-> score, err |-> "none", outcome |-> "timeout" ]
            ELSE [ wave |-> timed, score |-> score, err |-> "none", outcome |-> "running" ]

(***************************************************************************)
(* The wave system driven by the game                                      *)
(*                                                                         *)
(* No code of the repository writes enemies_defeated after start_wave.     *)
(* The kill counter of the wave under way is therefore an input: the       *)
(* initial states are a wave system on which start_wave has been called    *)
(* and whose counter a caller has set, and the wave system as constructed. *)
(***************************************************************************)
WaveNumbers == {1, 2, MaxWave}
WaveDeltaTimes == {5000, 10000}

WaveInit ==
    /\ now = 0
    /\ \/ /\ wave = NewWaveSystem
          /\ game = [ enemies |-> <<>>, score |-> 0, next_id |-> 1,
                      settings |-> InitialSettings ]
       \/ \E n \in WaveNumbers :
          \E k \in {0, wave_config(n).enemy_count - 1, wave_config(n).enemy_count} :
             /\ wave = [ start_wave(NewWaveSystem, n, 0) EXCEPT !.enemies_defeated = k ]
             /\ game = [ enemies |-> <<>>, score |-> 0, next_id |-> 1,
                         settings |-> apply_wave_difficulty(wave_config(n).difficulty) ]
    /\ last = NoOp
    /\ err = "none"
    /\ player = Idle /\ ps = Idle /\ spawn = Idle /\ missile = Idle /\ sm = Idle

\* the start_wave call of _start_new_game, or of a later wave
WaveStart ==
    \E n \in WaveNumbers :
        /\ err = "none"
        /\ wave' = start_wave(wave, n, now)
        /\ game' = [ game EXCEPT
                       !.settings = apply_wave_difficulty(wave_config(n).difficulty) ]
        /\ last' = [ op |-> "start_wave", arg |-> n, kind |-> "", ret |-> FALSE ]
        /\ UNCHANGED <<now, player, err, ps, spawn, missile, sm>>

\* an enemy enters the enemy group
WaveEnemyEnters ==
    /\ err = "none"
    /\ Len(game.enemies) < MaxEnemies
    /\ game' = [ game EXCEPT !.enemies = Append(@, NewEnemy(game.next_id, "SCOUT")),
                             !.next_id = (@ % MaxSprites) + 1 ]
    /\ last' = [ op |-> "enemy_enters", arg |-> 0, kind |-> "", ret |-> FALSE ]
    /\ UNCHANGED <<now, player, err, wave, ps, spawn, missile, sm>>

\* an enemy leaves the enemy group (Sprite.kill)
WaveEnemyLeaves ==
    /\ err = "none"
    /\ Len(game.enemies) > 0
    /\ game' = [ game EXCEPT !.enemies = Tail(@) ]
    /\ last' = [ op |-> "enemy_leaves", arg |-> 0, kind |-> "", ret |-> FALSE ]
    /\ UNCHANGED <<now, player, err, wave, ps, spawn, missile, sm>>

\* one frame: WaveSystem.update with the frame's delta
WaveUpdate ==
    \E dt \in WaveDeltaTimes :
        /\ err = "none"
        /\ now + dt <= MaxWaveTime
        /\ now' = now + dt
        /\ LET r == wave_update(wave, dt, game.score, game.enemies)
           IN  /\ wave' = r.wave
               /\ game' = [ game EXCEPT !.score = r.score ]
               /\ err' = r.err
               /\ last' = [ op |-> "wave_update", arg |-> dt, kind |-> r.outcome,
                            ret |-> is_wave_completed(
                                      [ wave EXCEPT !.wave_timer = @ + dt ], game.enemies) ]
        /\ UNCHANGED <<player, ps, spawn, missile, sm>>

WaveNext == WaveStart \/ WaveEnemyEnters \/ WaveEnemyLeaves \/ WaveUpdate

SpecWave == WaveInit /\ [][WaveNext]_vars

\* C8: _is_wave_completed is false whenever an enemy is alive, whatever the
\* kill count and the timer are, and no update completes a wave while the
\* enemy group is non-empty.
C8_NoCompletionWithEnemies ==
    [][ (last'.op = "wave_update" /\ Len(game.enemies) > 0) =>
            (~last'.ret /\ last'.kind # "completed"
             /\ game'.score = game.score /\ err' = "none") ]_vars

\* an update of an active wave found the kill count and the timer met but an
\* enemy alive, and did not complete the wave
C8_Witness ==
    /\ last.op = "wave_update" /\ last.kind = "running"
    /\ wave.enemies_defeated >= wave.total_wave_enemies
    /\ wave.wave_timer >= 10000
    /\ Len(game.enemies) > 0

\* the completion test of an update by delta_time: on the advanced timer
C15_Complete(delta_time) ==
    /\ wave.enemies_defeated >= wave.total_wave_enemies
    /\ wave.wave_timer + delta_time >= 10000
    /\ Len(game.enemies) = 0

\* C15: is_wave_active becomes true only through start_wave and false only
\* through a completion or a timeout; an update completes an active wave
\* exactly when, on the advanced timer, enemies_defeated >= total_wave_enemies,
\* wave_timer >= 10 s and the enemy group is empty; and update changes
\* nothing while the wave is inactive.
C15_WaveLifecycle ==
    [][ /\ (~wave.is_wave_active /\ wave'.is_wave_active) => last'.op = "start_wave"
        /\ (wave.is_wave_active /\ ~wave'.is_wave_active) =>
              (last'.op = "wave_update" /\ last'.kind \in {"completed", "timeout"})
        /\ (last'.op = "wave_update" /\ wave.is_wave_active) =>
              ((last'.kind = "completed" /\ ~wave'.is_wave_active)
                  <=> C15_Complete(last'.arg))
        /\ (last'.op = "wave_update" /\ ~wave.is_wave_active) =>
              (wave' = wave /\ game' = game /\ err' = err) ]_vars

\* an update has just completed a wave whose timer it advanced to exactly
\* the 10 s floor
C15_Witness ==
    /\ last.op = "wave_update" /\ last.kind = "completed"
    /\ ~wave.is_wave_active
    /\ wave.wave_timer = 10000
    /\ wave.enemies_defeated >= wave.total_wave_enemies
    /\ Len(game.enemies) = 0

\* C16: an active wave times out in the first update in which wave_timer >=
\* wave_duration and the completion condition does not hold, completion
\* taking priority when both hold; the timeout sets the wave inactive and
\* changes nothing else: the score, current_wave, the counters and the
\* enemy group are as they were, and nothing is raised.
C16_WaveTimeout ==
    /\ [](wave.is_wave_active => wave.wave_timer < wave.wave_duration)
    /\ [][ (last'.op = "wave_update" /\ wave.is_wave_active) =>
              /\ last'.kind = "timeout" <=>
                    (wave.wave_timer + last'.arg >= wave.wave_duration
                     /\ ~C15_Complete(last'.arg))
              /\ last'.kind = "timeout" =>
                    /\ wave' = [ wave EXCEPT !.wave_timer = @ + last'.arg,
                                             !.is_wave_active = FALSE ]
                    /\ game' = game
                    /\ err' = "none" ]_vars

\* a wave whose kill count was met has just timed out with an enemy alive
C16_Witness ==
    /\ last.op = "wave_update" /\ last.kind = "timeout"
    /\ ~wave.is_wave_active
    /\ wave.wave_timer >= wave.wave_duration
    /\ wave.enemies_defeated >= wave.total_wave_enemies
    /\ Len(game.enemies) > 0

\* C21: an update that completes a wave adds the time bonus and the wave
\* bonus to the score, sets the wave inactive and prepares the next wave
\* without raising anything.
C21_CompletionPreparesNextWave ==
    (last.op = "wave_update" /\ last.kind = "completed") =>
        (~wave.is_wave_active /\ err = "none")

\* C26: start_wave(n) sets the shared enemy base stats from the difficulty
\* of wave n, and every enemy that enters the group while wave n is active
\* has its health and damage scaled by that difficulty.
C26_EnemiesScaled ==
    [][ /\ last'.op = "start_wave" =>
              game'.settings = apply_wave_difficulty(wave_config(last'.arg).difficulty)
        /\ (last'.op = "enemy_enters" /\ wave.is_wave_active) =>
              LET e == game'.enemies[Len(game'.enemies)]
                  d == wave_config(wave.current_wave).difficulty
              IN  /\ e.max_health = (EnemyConfig(e.enemy_type).health * d) \div 10
                  /\ e.health = e.max_health
                  /\ e.damage = (EnemyConfig(e.enemy_type).damage * d) \div 10 ]_vars

\* frames keep being stepped: the update of the wave system is taken as long
\* as a frame fits the clock of the model
SpecWaveLive == SpecWave /\ WF_vars(WaveUpdate)

\* no further frame fits the clock of the model
C38_ClockOut == \A dt \in WaveDeltaTimes : now + dt > MaxWaveTime

\* C38: a started wave becomes inactive while frames are stepped: as long
\* as it is active its timer is the play time since start_wave and is below
\* wave_duration, so the update that brings the timer to wave_duration has
\* completed it or timed it out; every active wave is eventually inactive
\* (within the clock of the model), and the timer of an inactive wave does
\* not grow.
C38_WaveEnds ==
    /\ [](wave.is_wave_active =>
            /\ wave.wave_timer = now - wave.wave_start_time
            /\ wave.wave_timer < wave.wave_duration)
    /\ [][ (~wave.is_wave_active /\ ~wave'.is_wave_active)
             => wave'.wave_timer = wave.wave_timer ]_vars
    /\ [][ (last'.op = "wave_update" /\ wave.is_wave_active
            /\ wave.wave_timer + last'.arg >= wave.wave_duration)
             => ~wave'.is_wave_active ]_vars
    /\ (wave.is_wave_active ~> (~wave.is_wave_active \/ C38_ClockOut))

\* a wave whose kill count was never met has just been ended by the update
\* that brought its timer to wave_duration, frames still fitting the clock
C38_Witness ==
    /\ last.op = "wave_update" /\ last.kind = "timeout"
    /\ ~wave.is_wave_active
    /\ wave.wave_timer >= wave.wave_duration
    /\ wave.wave_timer = now - wave.wave_start_time
    /\ wave.enemies_defeated < wave.total_wave_enemies
    /\ ~C38_ClockOut

(***************************************************************************)
(* systems/spawn_system.py: the weighted choice of an enemy type           *)
(*                                                                         *)
(* Weights are in hundredths.  random.random() is the fraction             *)
(* draw / DrawGrid of [0, 1).  random.choices accumulates the normalised   *)
(* weights and returns the first type whose cumulative weight exceeds      *)
(* random() * total, looking no further than the last type; dividing every *)
(* weight by their sum leaves that comparison as cum * DrawGrid >          *)
(* draw * sum.                                                             *)
(***************************************************************************)
MaxSpawnWave == 8
DrawGrid == 20

\* the types with Fighter listed one wave early, with a weight to match
enemy_weights_fighter_early(wave_number) ==
    <<[ enemy_type |-> "SCOUT", weight |-> Max(10, 100 - wave_number * 10) ]>>
    \o (IF wave_number >= 1
        THEN <<[ enemy_type |-> "FIGHTER", weight |-> Min(60, wave_number * 20) ]>>
        ELSE <<>>)
    \o (IF wave_number >= 4
        THEN <<[ enemy_type |-> "BOMBER", weight |-> Min(40, (wave_number - 3) * 15) ]>>
        ELSE <<>>)
    \o (IF wave_number >= 6
        THEN <<[ enemy_type |-> "ELITE", weight |-> Min(30, (wave_number - 5) * 10) ]>>
        ELSE <<>>)

\* enemy_types and enemy_weights as _get_random_enemy_type builds them
enemy_weights(wave_number) ==
    <<[ enemy_type |-> "SCOUT", weight |-> Max(10, 100 - wave_number * 10) ]>>
    \o (IF wave_number >= 2
        THEN <<[ enemy_type |-> "FIGHTER", weight |-> Min(60, (wave_number - 1) * 20) ]>>
        ELSE <<>>)
    \o (IF wave_number >= 4
        THEN <<[ enemy_type |-> "BOMBER", weight |-> Min(40, (wave_number - 3) * 15) ]>>
        ELSE <<>>)
    \o (IF wave_number >= 6
        THEN <<[ enemy_type |-> "ELITE", weight |-> Min(30, (wave_number - 5) * 10) ]>>
        ELSE <<>>)

\* sum(enemy_weights[1..i])
RECURSIVE CumWeight(_, _)
CumWeight(weights, i) == IF i = 0 THEN 0 ELSE weights[i].weight + CumWeight(weights, i - 1)

\* bisect(cum_weights, random() * total, 0, n - 1) of random.choices, from
\* index i on, indices counted from 1
RECURSIVE Bisect(_, _, _)
Bisect(weights, draw, i) ==
    IF i >= Len(weights) THEN Len(weights)
    ELSE IF CumWeight(weights, i) * DrawGrid > draw * CumWeight(weights, Len(weights))
         THEN i
         ELSE Bisect(weights, draw, i + 1)

\* SpawnSystem._get_random_enemy_type for the draw random() = draw / DrawGrid
get_random_enemy_type(wave_number, draw) ==
    LET weights == enemy_weights(wave_number)
    IN  IF CumWeight(weights, Len(weights)) > 0
        THEN weights[Bisect(weights, draw, 1)].enemy_type
        ELSE "SCOUT"

(***************************************************************************)
(* The choice of an enemy type for every wave number and draw              *)
(***************************************************************************)
SpawnTypeInit ==
    /\ now = 0
    /\ spawn = [ wave_number |-> 1, draw |-> 0,
                 enemy_type |-> get_random_enemy_type(1, 0) ]
    /\ last = NoOp
    /\ err = "none"
    /\ player = Idle /\ ps = Idle /\ wave = Idle /\ game = Idle /\ missile = Idle /\ sm = Idle

DrawEnemyType ==
    \E wave_number \in 1..MaxSpawnWave, draw \in 0..(DrawGrid - 1) :
        /\ spawn' = [ wave_number |-> wave_number, draw |-> draw,
                      enemy_type |-> get_random_enemy_type(wave_number, draw) ]
        /\ last' = [ op |-> "get_random_enemy_type", arg |-> wave_number, kind |-> "",
                     ret |-> FALSE ]
        /\ UNCHANGED <<now, player, err, ps, wave, game, missile, sm>>

SpawnTypeNext == DrawEnemyType

SpecSpawnType == SpawnTypeInit /\ [][SpawnTypeNext]_vars

\* C9: _get_random_enemy_type returns only a type unlocked at the wave, for
\* every draw: Scout alone at wave 1, Fighter only from wave 2, Bomber only
\* from wave 4 and Elite only from wave 6.
C9_OnlyUnlockedTypes ==
    /\ spawn.enemy_type \in EnemyTypes
    /\ spawn.wave_number = 1 => spawn.enemy_type = "SCOUT"
    /\ spawn.enemy_type = "FIGHTER" => spawn.wave_number >= 2
    /\ spawn.enemy_type = "BOMBER" => spawn.wave_number >= 4
    /\ spawn.enemy_type = "ELITE" => spawn.wave_number >= 6

\* at wave 1 the highest draw was made and a Scout came out
C9_Witness ==
    /\ last.op = "get_random_enemy_type"
    /\ spawn.wave_number = 1 /\ spawn.draw = DrawGrid - 1
    /\ spawn.enemy_type = "SCOUT"

(***************************************************************************)
(* entities/bullet.py: HomingMissile                                       *)
(*                                                                         *)
(* Positions are whole pixels.  A direction is a heading in eighths of a   *)
(* turn, counted anticlockwise from east as atan2(-y, x) counts them       *)
(* (2 is straight up the screen), and the bearing of the target is the     *)
(* nearest eighth.  The speed is in hundredths of a pixel per frame.  The  *)
(* frame deltas are those for which the turn limit of 2 degrees per frame  *)
(* is a whole number of eighths: 375 ms is 22.5 frames, 45 degrees.        *)
(***************************************************************************)
SCREEN_WIDTH == 1200
SCREEN_HEIGHT == 800
BULLET_SPEED == 12

Abs(n) == IF n < 0 THEN -n ELSE n
Sign(n) == IF n < 0 THEN -1 ELSE IF n > 0 THEN 1 ELSE 0

\* 1000 * <<cos, -sin>> of a heading: the direction vector on the screen
HeadingVector(heading) ==
    CASE heading = 0 -> <<1000, 0>>
      [] heading = 1 -> <<707, -707>>
      [] heading = 2 -> <<0, -1000>>
      [] heading = 3 -> <<-707, -707>>
      [] heading = 4 -> <<-1000, 0>>
      [] heading = 5 -> <<-707, 707>>
      [] heading = 6 -> <<0, 1000>>
      [] heading = 7 -> <<707, 707>>

\* atan2(-dy, dx) of the vector from `from` to `to`, to the nearest eighth
\* (414 / 1000 is the tangent of a sixteenth of a turn)
Bearing(from, to) ==
    LET dx == to[1] - from[1]
        up == from[2] - to[2]
    IN  IF Abs(up) * 1000 <= Abs(dx) * 414 THEN (IF dx > 0 THEN 0 ELSE 4)
        ELSE IF Abs(dx) * 1000 <= Abs(up) * 414 THEN (IF up > 0 THEN 2 ELSE 6)
        ELSE IF dx > 0 THEN (IF up > 0 THEN 1 ELSE 7)
        ELSE (IF up > 0 THEN 3 ELSE 5)

\* delta_time * 60, in hundredths of a frame
Frames(delta_time) == (delta_time * 60) \div 10

\* direction * speed * delta_time * 60, in pixels
Displacement(heading, speed, delta_time) ==
    LET step == (speed * Frames(delta_time)) \div 10000
        v == HeadingVector(heading)
    IN  << Sign(v[1]) * ((Abs(v[1]) * step) \div 1000),
           Sign(v[2]) * ((Abs(v[2]) * step) \div 1000) >>

\* HomingMissile.__init__ at clock t: the direction is (0, -1)
NewMissile(position, target, t) ==
    [ alive |-> TRUE, position |-> position, heading |-> 2,
      speed |-> (BULLET_SPEED * 6 * 100) \div 10,
      spawn_time |-> t, target |-> target ]

NoTarget == [ present |-> FALSE, alive |-> FALSE, position |-> <<0, 0>> ]
Target(position) == [ present |-> TRUE, alive |-> TRUE, position |-> position ]

\* Bullet.update without its lifetime test
bullet_update_outliving(m, delta_time, t) ==
    LET d == Displacement(m.heading, m.speed, delta_time)
        x == m.position[1] + d[1]
        y == m.position[2] + d[2]
        outside == \/ x + 3 < 0 \/ x - 3 > SCREEN_WIDTH
                   \/ y + 6 < 0 \/ y - 6 > SCREEN_HEIGHT
    IN  [ m EXCEPT !.position = <<x, y>>,
                   !.alive = ~outside ]

\* Bullet.update at clock t: the move, then the lifetime and bounds kills of
\* the 6 x 12 bullet rectangle
bullet_update(m, delta_time, t) ==
    LET d == Displacement(m.heading, m.speed, delta_time)
        x == m.position[1] + d[1]
        y == m.position[2] + d[2]
        expired == t - m.spawn_time > BULLET_LIFETIME
        outside == \/ x + 3 < 0 \/ x - 3 > SCREEN_WIDTH
                   \/ y + 6 < 0 \/ y - 6 > SCREEN_HEIGHT
    IN  [ m EXCEPT !.position = <<x, y>>,
                   !.alive = ~(expired \/ outside) ]

\* the homing branch of HomingMissile.update: the turn towards the target,
\* limited to 2 degrees per frame, and the acceleration
homing_turn(m, delta_time) ==
    LET target_angle == Bearing(m.position, m.target.position)
        angle_diff == ((target_angle - m.heading + 4) % 8) - 4
        max_turn == (2 * Frames(delta_time)) \div 4500
        turn_amount == Max(-max_turn, Min(max_turn, angle_diff))
    IN  [ m EXCEPT !.heading = (m.heading + turn_amount) % 8,
                   !.speed = m.speed + (10 * Frames(delta_time)) \div 100 ]

\* HomingMissile.update with the base update left out once the target is lost
homing_update_stalling(m, delta_time, t) ==
    IF m.target.present /\ m.target.alive
    THEN IF m.target.position = m.position
         THEN [ missile |-> m, err |-> "ValueError" ]
         ELSE [ missile |-> bullet_update(homing_turn(m, delta_time), delta_time, t),
                err |-> "none" ]
    ELSE [ missile |-> m, err |-> "none" ]

\* HomingMissile.update at clock t: the missile and the exception afterwards.
\* Normalising the zero vector to a target at the missile's own position
\* raises ValueError.
homing_update(m, delta_time, t) ==
    IF m.target.present /\ m.target.alive
    THEN IF m.target.position = m.position
         THEN [ missile |-> m, err |-> "ValueError" ]
         ELSE [ missile |-> bullet_update(homing_turn(m, delta_time), delta_time, t),
                err |-> "none" ]
    ELSE [ missile |-> bullet_update(m, delta_time, t), err |-> "none" ]

(***************************************************************************)
(* A homing missile in flight                                              *)
(***************************************************************************)
MissileDeltaTimes == {375, 750}
MissileStarts == { <<600, 700>>, <<300, 400>> }
TargetPositions == { <<600, 100>>, <<100, 400>>, <<1000, 700>> }

MissileInit ==
    /\ now = 0
    /\ \E position \in MissileStarts :
       \E target \in {NoTarget} \cup { Target(q) : q \in TargetPositions } :
          missile = NewMissile(position, target, 0)
    /\ last = NoOp
    /\ err = "none"
    /\ player = Idle /\ ps = Idle /\ wave = Idle /\ game = Idle /\ spawn = Idle /\ sm = Idle

\* one frame: the group the missile is in calls its update
MissileUpdate ==
    \E dt \in MissileDeltaTimes :
        /\ err = "none"
        /\ missile.alive
        /\ now + dt <= MaxTime
        /\ now' = now + dt
        /\ missile' = homing_update(missile, dt, now + dt).missile
        /\ err' = homing_update(missile, dt, now + dt).err
        /\ last' = [ op |-> "missile_update", arg |-> dt, kind |-> "",
                     ret |-> missile.target.present /\ missile.target.alive ]
        /\ UNCHANGED <<player, ps, wave, game, spawn, sm>>

\* the target enemy is killed: it is in no group any more
TargetDestroyed ==
    /\ err = "none"
    /\ missile.target.present /\ missile.target.alive
    /\ missile' = [ missile EXCEPT !.target.alive = FALSE ]
    /\ last' = [ op |-> "target_destroyed", arg |-> 0, kind |-> "", ret |-> FALSE ]
    /\ UNCHANGED <<now, player, err, ps, wave, game, spawn, sm>>

\* the target enemy moves
TargetMoves ==
    \E q \in TargetPositions :
        /\ err = "none"
        /\ missile.target.present /\ missile.target.alive
        /\ q # missile.target.position
        /\ missile' = [ missile EXCEPT !.target.position = q ]
        /\ last' = [ op |-> "target_moves", arg |-> 0, kind |-> "", ret |-> FALSE ]
        /\ UNCHANGED <<now, player, err, ps, wave, game, spawn, sm>>

MissileNext == MissileUpdate \/ TargetDestroyed \/ TargetMoves

SpecMissile == MissileInit /\ [][MissileNext]_vars

\* C10: an update of a homing missile whose target is destroyed or absent
\* raises nothing, leaves the direction (and the speed) as they were, and
\* moves the missile along that direction: it does not stall.
C10_LostTargetFliesStraight ==
    [][ (last'.op = "missile_update" /\ ~(missile.target.present /\ missile.target.alive)) =>
          /\ err' = "none"
          /\ missile'.heading = missile.heading
          /\ missile'.speed = missile.speed
          /\ missile'.position # missile.position
          /\ missile'.position[1] - missile.position[1]
                = Displacement(missile.heading, missile.speed, last'.arg)[1]
          /\ missile'.position[2] - missile.position[2]
                = Displacement(missile.heading, missile.speed, last'.arg)[2] ]_vars

\* a missile that had turned towards its target and sped up has just been
\* updated after the target was destroyed
C10_Witness ==
    /\ last.op = "missile_update" /\ ~last.ret
    /\ missile.target.present /\ ~missile.target.alive
    /\ missile.heading # 2
    /\ missile.speed > (BULLET_SPEED * 6 * 100) \div 10
    /\ missile.alive

(***************************************************************************)
(* state_manager.py                                                        *)
(*                                                                         *)
(* A payload dict is the set of its <<key, value>> items.  An optional     *)
(* `data` argument is a record: `given` is FALSE for None.  previous_state *)
(* is "None" until the first change_state.                                 *)
(***************************************************************************)
GameStates ==
    {"MAIN_MENU", "PLAYING", "PAUSED", "GAME_OVER", "UPGRADE_SELECT", "WAVE_TRANSITION"}

NoData == [ given |-> FALSE, dict |-> {} ]
Data(dict) == [ given |-> TRUE, dict |-> dict ]

\* `data or {}`: None and the empty dict both give the empty dict
OrEmpty(data) == IF data.given /\ data.dict # {} THEN data.dict ELSE {}

\* StateManager.__init__
NewStateManager ==
    [ current_state |-> "MAIN_MENU", previous_state |-> "None", state_data |-> {} ]

\* change_state updating the payload in place instead of replacing it
change_state_merging(m, new_state, data) ==
    [ current_state |-> new_state, previous_state |-> m.current_state,
      state_data |-> m.state_data \cup OrEmpty(data) ]

\* StateManager.change_state
change_state(m, new_state, data) ==
    [ current_state |-> new_state, previous_state |-> m.current_state,
      state_data |-> OrEmpty(data) ]

\* return_to_previous going back without recording where it came from
return_to_previous_no_swap(m, data) ==
    IF m.previous_state # "None"
    THEN [ m EXCEPT !.current_state = m.previous_state, !.state_data = OrEmpty(data) ]
    ELSE m

\* StateManager.return_to_previous: every GameState member is truthy
return_to_previous(m, data) ==
    IF m.previous_state # "None"
    THEN [ current_state |-> m.previous_state, previous_state |-> m.current_state,
           state_data |-> OrEmpty(data) ]
    ELSE m

\* StateManager.set_data
set_data(m, key, value) ==
    [ m EXCEPT !.state_data = { item \in m.state_data : item[1] # key } \cup { <<key, value>> } ]

\* StateManager.is_state
is_state(m, state) == m.current_state = state

(***************************************************************************)
(* The StateManager driven by an arbitrary caller.  `last` also keeps the  *)
(* payload argument of the last call, the operations before it (`ops`, the *)
(* last three calls, newest last) and the manager before the last two      *)
(* calls (`before`, oldest first).                                         *)
(***************************************************************************)
Payloads ==
    { NoData, Data({}), Data({ <<"score", 10>> }), Data({ <<"wave", 2>> }) }

Recent(seq, n) == IF Len(seq) <= n THEN seq ELSE SubSeq(seq, Len(seq) - n + 1, Len(seq))

Called(op, kind, data) ==
    [ op |-> op, arg |-> 0, kind |-> kind, ret |-> FALSE, data |-> data,
      ops |-> Recent(Append(last.ops, [ op |-> op, kind |-> kind ]), 3),
      before |-> Recent(Append(last.before, sm), 2) ]

StateInit ==
    /\ now = 0
    /\ sm = NewStateManager
    /\ last = [ op |-> "init", arg |-> 0, kind |-> "", ret |-> FALSE, data |-> NoData,
                ops |-> <<>>, before |-> <<>> ]
    /\ err = "none"
    /\ player = Idle /\ ps = Idle /\ wave = Idle /\ game = Idle /\ spawn = Idle
    /\ missile = Idle

ChangeState ==
    \E s \in GameStates, d \in Payloads :
        /\ sm' = change_state(sm, s, d)
        /\ last' = Called("change_state", s, d)
        /\ UNCHANGED <<now, player, err, ps, wave, game, spawn, missile>>

ReturnToPrevious ==
    \E d \in Payloads :
        /\ sm' = return_to_previous(sm, d)
        /\ last' = Called("return_to_previous", "", d)
        /\ UNCHANGED <<now, player, err, ps, wave, game, spawn, missile>>

SetData ==
    \E key \in {"score", "wave"} :
        /\ sm' = set_data(sm, key, IF key = "score" THEN 10 ELSE 2)
        /\ last' = Called("set_data", key, NoData)
        /\ UNCHANGED <<now, player, err, ps, wave, game, spawn, missile>>

StateNext == ChangeState \/ ReturnToPrevious \/ SetData

SpecState == StateInit /\ [][StateNext]_vars

\* C12: the StateManager starts in MAIN_MENU, and change_state(s, d) from any
\* state c leaves current_state = s, previous_state = c and the payload
\* exactly d, empty when no data is given, with nothing of the old payload.
C12_ChangeState ==
    /\ sm.current_state = "MAIN_MENU"
    /\ [][ last'.op = "change_state" =>
             /\ sm'.current_state = last'.kind
             /\ sm'.previous_state = sm.current_state
             /\ sm'.state_data = (IF last'.data.given THEN last'.data.dict ELSE {}) ]_vars

\* change_state(PAUSED) without data has just been called from PLAYING on a
\* manager whose payload held a score
C12_Witness ==
    /\ last.op = "change_state" /\ last.kind = "PAUSED" /\ ~last.data.given
    /\ sm.current_state = "PAUSED" /\ sm.previous_state = "PLAYING"
    /\ sm.state_data = {}
    /\ Len(last.before) > 0
    /\ <<"score", 10>> \in last.before[Len(last.before)].state_data

\* the current state is where two return_to_previous calls in a row started
C13_TwiceRestores ==
    (/\ Len(last.ops) >= 2 /\ Len(last.before) = 2
     /\ last.ops[Len(last.ops)].op = "return_to_previous"
     /\ last.ops[Len(last.ops) - 1].op = "return_to_previous") =>
        /\ sm.current_state = last.before[1].current_state
        /\ sm.previous_state = last.before[1].previous_state

\* after change_state(B), return_to_previous, return_to_previous the current
\* state is B
C13_OneLevel ==
    (/\ Len(last.ops) = 3
     /\ last.ops[1].op = "change_state"
     /\ last.ops[2].op = "return_to_previous"
     /\ last.ops[3].op = "return_to_previous") =>
        sm.current_state = last.ops[1].kind

\* C13: return_to_previous swaps current_state and previous_state, so two
\* calls in a row restore both; only one level of history exists (after
\* change_state(A), change_state(B) and two returns the current state is B);
\* with no previous state recorded it changes nothing, the payload included.
C13_ReturnToPrevious ==
    /\ [](C13_TwiceRestores /\ C13_OneLevel)
    /\ [][ last'.op = "return_to_previous" =>
             IF sm.previous_state = "None" THEN sm' = sm
             ELSE /\ sm'.current_state = sm.previous_state
                  /\ sm'.previous_state = sm.current_state ]_vars

\* change_state(PLAYING), change_state(PAUSED) and two returns have been
\* made: the manager is in PAUSED with PLAYING as the previous state
C13_Witness ==
    /\ Len(last.ops) = 3 /\ Len(last.before) = 2
    /\ last.ops[1] = [ op |-> "change_state", kind |-> "PAUSED" ]
    /\ last.ops[2].op = "return_to_previous" /\ last.ops[3].op = "return_to_previous"
    /\ last.before[1].previous_state = "PLAYING"
    /\ sm.current_state = "PAUSED" /\ sm.previous_state = "PLAYING"

(***************************************************************************)
(* systems/spawn_system.py: SpawnSystem.update                             *)
(*                                                                         *)
(* Timers and intervals are in ms.  Of the enemy group this system reads   *)
(* the length and adds to it: the group is the number of its sprites.      *)
(* wave_number is an argument of update.  NotLifeGame passes its own       *)
(* wave_number, which _start_new_game sets to 1 and no code of the         *)
(* repository advances: the advance of the wave number is an input here.   *)
(***************************************************************************)
MaxSpawnTime == 40000
MaxPatternWave == 6

SpawnPatterns == {"RANDOM", "FORMATION", "WAVE", "BOSS"}

\* SpawnSystem.__init__
NewSpawnSystem ==
    [ spawn_timer |-> 0, base_spawn_interval |-> 2000, wave_spawn_count |-> 0,
      max_wave_spawns |-> 10, current_pattern |-> "RANDOM", pattern_timer |-> 0 ]

\* the available_patterns list of _update_spawn_pattern
available_patterns(wave_number) ==
    {"RANDOM"}
        \cup (IF wave_number >= 2 THEN {"FORMATION"} ELSE {})
        \cup (IF wave_number >= 4 THEN {"WAVE"} ELSE {})
        \cup (IF wave_number >= 6 THEN {"BOSS"} ELSE {})

\* SpawnSystem._update_spawn_pattern: the spawn systems random.choice allows
update_spawn_pattern(s, wave_number) ==
    IF s.pattern_timer >= 10000
    THEN { [ s EXCEPT !.current_pattern = p, !.pattern_timer = 0 ] :
             p \in available_patterns(wave_number) }
    ELSE { s }

\* SpawnSystem._get_spawn_interval
get_spawn_interval(s, wave_number) ==
    LET interval == Max(500, s.base_spawn_interval - wave_number * 100)
    IN  CASE s.current_pattern = "FORMATION" -> (interval * 15) \div 10
          [] s.current_pattern = "WAVE" -> (interval * 7) \div 10
          [] OTHER -> interval

\* SpawnSystem._get_max_spawns
get_max_spawns(wave_number) == 10 + wave_number * 2

\* the numbers of enemies _spawn_enemies can add under a pattern: one for
\* RANDOM and BOSS, a V of 10, a line of 7 or a circle of 8 for FORMATION,
\* min(8, 3 + wave_number // 2) for WAVE
spawn_sizes(pattern, wave_number) ==
    CASE pattern = "FORMATION" -> {10, 7, 8}
      [] pattern = "WAVE" -> { Min(8, 3 + wave_number \div 2) }
      [] OTHER -> {1}

\* the steps of update after the pattern rotation, spawning whenever the
\* timer allows, whatever the budget
spawn_and_replenish_unbudgeted(s, enemies, wave_number) ==
    LET ready == s.spawn_timer >= get_spawn_interval(s, wave_number)
        after == IF ready
                 THEN [ s EXCEPT !.spawn_timer = 0, !.wave_spawn_count = @ + 1 ]
                 ELSE s
    IN  { [ spawn |-> IF n = 0 /\ after.wave_spawn_count >= after.max_wave_spawns
                      THEN [ after EXCEPT !.wave_spawn_count = 0,
                                          !.max_wave_spawns = get_max_spawns(wave_number) ]
                      ELSE after,
            enemies |-> n, spawned |-> ready ] :
          n \in IF ready
                THEN { enemies + k : k \in spawn_sizes(s.current_pattern, wave_number) }
                ELSE { enemies } }

\* the steps of update after the pattern rotation: the spawn, gated by the
\* timer and the budget, then the replenishing of the budget
spawn_and_replenish(s, enemies, wave_number) ==
    LET ready == /\ s.spawn_timer >= get_spawn_interval(s, wave_number)
                 /\ s.wave_spawn_count < s.max_wave_spawns
        after == IF ready
                 THEN [ s EXCEPT !.spawn_timer = 0, !.wave_spawn_count = @ + 1 ]
                 ELSE s
    IN  { [ spawn |-> IF n = 0 /\ after.wave_spawn_count >= after.max_wave_spawns
                      THEN [ after EXCEPT !.wave_spawn_count = 0,
                                          !.max_wave_spawns = get_max_spawns(wave_number) ]
                      ELSE after,
            enemies |-> n, spawned |-> ready ] :
          n \in IF ready
                THEN { enemies + k : k \in spawn_sizes(s.current_pattern, wave_number) }
                ELSE { enemies } }

\* SpawnSystem.update: the spawn systems and enemy groups that can result
spawn_update(s, delta_time, enemies, wave_number) ==
    LET timed == [ s EXCEPT !.spawn_timer = @ + delta_time,
                            !.pattern_timer = @ + delta_time ]
    IN  UNION { spawn_and_replenish(r, enemies, wave_number) :
                  r \in update_spawn_pattern(timed, wave_number) }

(***************************************************************************)
(* The spawn system driven by the game                                     *)
(***************************************************************************)
SpawnDeltaTimes == {2500, 5000}

SpawnInit ==
    /\ now = 0
    /\ spawn = NewSpawnSystem
    /\ game = [ enemies |-> 0, wave_number |-> 1 ]
    /\ last = NoOp
    /\ err = "none"
    /\ player = Idle /\ ps = Idle /\ wave = Idle /\ missile = Idle /\ sm = Idle

\* one frame: SpawnSystem.update with the frame's delta
SpawnUpdate ==
    \E dt \in SpawnDeltaTimes :
        /\ now + dt <= MaxSpawnTime
        /\ now' = now + dt
        /\ \E r \in spawn_update(spawn, dt, game.enemies, game.wave_number) :
              /\ spawn' = r.spawn
              /\ game' = [ game EXCEPT !.enemies = r.enemies ]
              /\ last' = [ op |-> "spawn_update", arg |-> dt, kind |-> "",
                           ret |-> r.spawned ]
        /\ UNCHANGED <<player, err, ps, wave, missile, sm>>

\* the enemies in the group are killed or leave the screen
SpawnEnemiesGone ==
    /\ game.enemies > 0
    /\ game' = [ game EXCEPT !.enemies = 0 ]
    /\ last' = [ op |-> "enemies_gone", arg |-> 0, kind |-> "", ret |-> FALSE ]
    /\ UNCHANGED <<now, player, err, ps, wave, spawn, missile, sm>>

\* the caller moves on to the next wave number
SpawnWaveAdvances ==
    /\ game.wave_number < MaxPatternWave
    /\ game' = [ game EXCEPT !.wave_number = @ + 1 ]
    /\ last' = [ op |-> "wave_advances", arg |-> 0, kind |-> "", ret |-> FALSE ]
    /\ UNCHANGED <<now, player, err, ps, wave, spawn, missile, sm>>

\* NotLifeGame._start_new_game: the group is emptied and the wave number is
\* 1 again; the spawn system is not touched
SpawnStartNewGame ==
    /\ game' = [ enemies |-> 0, wave_number |-> 1 ]
    /\ last' = [ op |-> "start_new_game", arg |-> 0, kind |-> "", ret |-> FALSE ]
    /\ UNCHANGED <<now, player, err, ps, wave, spawn, missile, sm>>

SpawnNext == SpawnUpdate \/ SpawnEnemiesGone \/ SpawnWaveAdvances \/ SpawnStartNewGame

SpecSpawn == SpawnInit /\ [][SpawnNext]_vars

\* the spawn interval an update by the frame's delta compares the timer with
C17_Interval == get_spawn_interval(spawn', game.wave_number)

\* C17: wave_spawn_count <= max_wave_spawns after any sequence of updates; a
\* spawn happens only while wave_spawn_count < max_wave_spawns and the
\* spawn timer has reached the interval; and the budget is replenished
\* (count 0, max 10 + 2 * wave) only in an update in which the enemy group
\* is empty and wave_spawn_count >= max_wave_spawns.
C17_SpawnBudget ==
    /\ [](spawn.wave_spawn_count <= spawn.max_wave_spawns)
    /\ [][ /\ (game'.enemies > game.enemies \/ (last'.op = "spawn_update" /\ last'.ret)) =>
                /\ last'.op = "spawn_update"
                /\ spawn.wave_spawn_count < spawn.max_wave_spawns
                /\ spawn.spawn_timer + last'.arg >= C17_Interval
           /\ (spawn'.max_wave_spawns # spawn.max_wave_spawns
                 \/ spawn'.wave_spawn_count < spawn.wave_spawn_count) =>
                /\ last'.op = "spawn_update"
                /\ game'.enemies = 0
                /\ spawn.wave_spawn_count + (IF last'.ret THEN 1 ELSE 0)
                      >= spawn.max_wave_spawns
                /\ spawn'.wave_spawn_count = 0
                /\ spawn'.max_wave_spawns = 10 + 2 * game.wave_number ]_vars

\* the budget of 10 was spent and, the group being empty, an update has just
\* replenished it for a later wave
C17_Witness ==
    /\ last.op = "spawn_update"
    /\ spawn.wave_spawn_count = 0
    /\ spawn.max_wave_spawns > 10
    /\ game.enemies = 0

\* C18 (second part): the pattern in force is one the current wave number
\* unlocks
C18_PatternUnlocked == spawn.current_pattern \in available_patterns(game.wave_number)

\* C18 (first part): the pattern changes only in an update that finds at
\* least 10 s accumulated since the last change
C18_ChangeNeedsTenSeconds ==
    [][ spawn'.current_pattern # spawn.current_pattern =>
          (last'.op = "spawn_update" /\ spawn.pattern_timer + last'.arg >= 10000) ]_vars

(***************************************************************************)
(* entities/enemy.py: Enemy.update; core/game.py: _cleanup_objects         *)
(*                                                                         *)
(* The enemy group through the frames of play.  An enemy is its id, type,  *)
(* health, the y of its centre in pixels and the phase of its behaviour.   *)
(* The types here are those that move by whole pixels: the Scout (straight *)
(* down, 3 px a frame) and the Elite (down at 2 px a frame to 30% of the   *)
(* screen height, then on a circle round that height).  Their x stays      *)
(* between the left and the right edge and is left out.  A frame is        *)
(* _update_playing as far as it touches the group: Enemy.update on every   *)
(* enemy, the spawn of the spawn system, the damage of the collision       *)
(* system and _cleanup_objects.  game.left is history: the enemies the     *)
(* last frame removed, as they were when removed.                          *)
(***************************************************************************)
MaxSpawned == 12

FlightTypes == {"SCOUT", "ELITE"}

\* the height of Enemy._get_type_config's 'size'
enemy_height(enemy_type) == IF enemy_type = "SCOUT" THEN 30 ELSE 50

\* 'speed' of Enemy._get_type_config, pixels per frame
enemy_speed(enemy_type) == IF enemy_type = "SCOUT" THEN 3 ELSE 2

\* Enemy.__init__ at position y
PlacedEnemy(id, enemy_type, y) ==
    [ id |-> id, enemy_type |-> enemy_type, health |-> EnemyConfig(enemy_type).health,
      y |-> y, phase |-> 0 ]

rect_top(e) == e.y - enemy_height(e.enemy_type) \div 2
rect_bottom(e) == e.y + enemy_height(e.enemy_type) \div 2

\* the heights sin(angle) * radius * 0.5 puts an Elite at on its circle,
\* before the velocity is added
CircleHeights == { (SCREEN_HEIGHT * 3) \div 10 + d : d \in {-50, 0, 50} }

\* _update_behavior and the move of Enemy.update: the enemies that can result
enemy_move(e) ==
    IF e.enemy_type = "SCOUT" THEN { [ e EXCEPT !.y = @ + enemy_speed("SCOUT") ] }
    ELSE IF e.phase = 0
    THEN IF e.y * 10 < SCREEN_HEIGHT * 3
         THEN { [ e EXCEPT !.y = @ + enemy_speed("ELITE") ] }
         ELSE { [ e EXCEPT !.phase = 1, !.y = @ + enemy_speed("ELITE") ] }
    ELSE { [ e EXCEPT !.y = h + enemy_speed("ELITE") ] : h \in CircleHeights }

\* the off-screen check that ends Enemy.update
past_bottom(e) == rect_top(e) > SCREEN_HEIGHT

\* NotLifeGame._is_on_screen for an enemy between the left and right edges
is_on_screen(e) == rect_bottom(e) > 0 /\ rect_top(e) < SCREEN_HEIGHT

\* enemies.update on the whole group: the groups that can result, each with
\* the enemies that killed themselves past the bottom edge
RECURSIVE enemies_update(_)
enemies_update(enemies) ==
    IF enemies = <<>> THEN { [ kept |-> <<>>, gone |-> {} ] }
    ELSE { IF past_bottom(m)
           THEN [ kept |-> r.kept, gone |-> r.gone \cup {m} ]
           ELSE [ kept |-> <<m>> \o r.kept, gone |-> r.gone ] :
             m \in enemy_move(Head(enemies)), r \in enemies_update(Tail(enemies)) }

\* the enemies _spawn_random adds: one at y = -50
spawn_random(id, enemy_type) == << PlacedEnemy(id, enemy_type, -50) >>

\* the enemies _spawn_v_formation adds: a left and a right one at
\* y = -100 + 30 i for i = 0..4
spawn_v_formation(id, enemy_type) ==
    [ k \in 1..10 |-> PlacedEnemy(id + k - 1, enemy_type, -100 + ((k - 1) \div 2) * 30) ]

\* the enemy loop of NotLifeGame._cleanup_objects
cleanup_enemies(enemies) ==
    [ kept |-> SelectSeq(enemies, is_on_screen),
      gone |-> { enemies[i] : i \in { j \in 1..Len(enemies) : ~is_on_screen(enemies[j]) } } ]

\* Enemy.take_damage on the enemy at index i
enemy_hit(enemies, i, damage) ==
    LET hurt == [ enemies[i] EXCEPT !.health = @ - damage ]
    IN  IF hurt.health <= 0
        THEN [ kept |-> SubSeq(enemies, 1, i - 1) \o SubSeq(enemies, i + 1, Len(enemies)),
               gone |-> { hurt } ]
        ELSE [ kept |-> [ enemies EXCEPT ![i] = hurt ], gone |-> {} ]

(***************************************************************************)
(* The frames of play                                                      *)
(***************************************************************************)
\* Player.damage as constructed and after three damage upgrades
BulletDamages == {25, 43}

EnemiesInit ==
    /\ now = 0
    /\ game = [ enemies |-> <<>>, next_id |-> 1, left |-> {} ]
    /\ last = NoOp
    /\ err = "none"
    /\ player = Idle /\ ps = Idle /\ wave = Idle /\ spawn = Idle /\ missile = Idle
    /\ sm = Idle

\* a frame in which nothing is spawned and nothing is hit
EnemiesFrame ==
    /\ err = "none"
    /\ \E u \in enemies_update(game.enemies) :
       \E c \in { cleanup_enemies(u.kept) } :
          /\ game' = [ game EXCEPT !.enemies = c.kept,
                                   !.left = u.gone \cup c.gone ]
          /\ last' = [ op |-> "frame", arg |-> 0, kind |-> "", ret |-> FALSE ]
    /\ UNCHANGED <<now, player, err, ps, wave, spawn, missile, sm>>

\* a frame in which the spawn system spawns
EnemiesSpawnFrame ==
    /\ err = "none"
    /\ \E enemy_type \in FlightTypes :
       \E added \in { spawn_random(game.next_id, enemy_type),
                      spawn_v_formation(game.next_id, enemy_type) } :
       \E u \in enemies_update(game.enemies) :
       \E c \in { cleanup_enemies(u.kept \o added) } :
          /\ game.next_id + Len(added) - 1 <= MaxSpawned
          /\ game' = [ game EXCEPT !.enemies = c.kept,
                                   !.next_id = @ + Len(added),
                                   !.left = u.gone \cup c.gone ]
          /\ last' = [ op |-> "frame", arg |-> Len(added), kind |-> "spawn",
                       ret |-> FALSE ]
    /\ UNCHANGED <<now, player, err, ps, wave, spawn, missile, sm>>

\* a frame in which a player bullet hits an enemy: the handler of pass 1
\* applies the damage and raises NameError, and the frame ends there
EnemiesHitFrame ==
    /\ err = "none"
    /\ \E damage \in BulletDamages :
       \E u \in enemies_update(game.enemies) :
       \E i \in 1..Len(u.kept) :
       \E h \in { enemy_hit(u.kept, i, damage) } :
          /\ game' = [ game EXCEPT !.enemies = h.kept,
                                   !.left = u.gone \cup h.gone ]
          /\ last' = [ op |-> "frame", arg |-> damage, kind |-> "hit", ret |-> FALSE ]
    /\ err' = "NameError"
    /\ UNCHANGED <<now, player, ps, wave, spawn, missile, sm>>

EnemiesNext == EnemiesFrame \/ EnemiesSpawnFrame \/ EnemiesHitFrame

SpecEnemies == EnemiesInit /\ [][EnemiesNext]_vars

\* C20: during play an enemy leaves the enemy group only when its health
\* has reached <= 0 or it has moved past the bottom edge of the screen; an
\* enemy spawned above the top edge stays in the group until then.
C20_LeavesOnlyDeadOrPastBottom ==
    \A e \in game.left : e.health <= 0 \/ rect_top(e) > SCREEN_HEIGHT

(***************************************************************************)
(* core/game.py: NotLifeGame                                               *)
(*                                                                         *)
(* The main loop: each frame handles the queued events, then the held      *)
(* keys (_handle_continuous_input), then _update; game.pc is the position  *)
(* in the frame.  The world is the state manager, the player (Idle while   *)
(* game.player is None), the enemy and player-bullet groups, the particle, *)
(* spawn and wave systems and the score.  The enemy-bullet and pickup      *)
(* groups are left out: no code adds to them.  No movement key is held, so *)
(* the player stays at the screen centre; the held keys are none or SPACE. *)
(* game.wave_number is 1 throughout a game, so the spawn pattern is RANDOM *)
(* and the enemy type drawn is the Scout.  game.steps is history: the      *)
(* steps of the last frame of play, in the order they ran.                 *)
(***************************************************************************)
MaxGameTime == 8000

\* the clock.tick values of a frame, ms
GameDeltaTimes == {500}

HeldKeys == {"NONE", "SPACE"}
PressedKeys == {"ESCAPE", "SPACE"}
Buttons == {"start", "resume", "restart", "main_menu"}

\* rect.top of the 40x60 ship centred on the screen
player_rect_top == SCREEN_HEIGHT \div 2 - 30

\* PlayerBullet.__init__ at height y and clock t
PlayerBullet(y, damage, t) == [ damage |-> damage, spawn_time |-> t, y |-> y ]

\* Bullet.update on every player bullet at clock t: the move, the lifetime
\* check and the bounds check of the 6x12 bullet
player_bullets_update(bullets, delta_time, t) ==
    LET moved == [ i \in 1..Len(bullets) |->
                     [ bullets[i] EXCEPT !.y = @ - (BULLET_SPEED * delta_time * 60) \div 1000 ] ]
        Stays(b) == ~(t - b.spawn_time > BULLET_LIFETIME) /\ ~(b.y + 6 < 0)
    IN  SelectSeq(moved, Stays)

\* the bullet loop of _cleanup_objects
cleanup_bullets(bullets) ==
    LET Stays(b) == b.y + 6 > 0 /\ b.y - 6 < SCREEN_HEIGHT
    IN  SelectSeq(bullets, Stays)

\* NotLifeGame.__init__
NewGame ==
    [ sm |-> NewStateManager, player |-> Idle,
      game |-> [ pc |-> "events", enemies |-> <<>>, player_bullets |-> <<>>,
                 score |-> 0, wave_number |-> 0, next_id |-> 1, steps |-> <<>> ],
      ps |-> [ particles |-> <<>>, emitters |-> <<>> ],
      spawn |-> NewSpawnSystem, wave |-> NewWaveSystem, err |-> "none" ]

\* _start_new_game leaving game.wave_number as __init__ set it
start_new_game_wave_number_kept(w, t) ==
    [ w EXCEPT
        !.player = NewPlayer,
        !.game = [ @ EXCEPT !.enemies = <<>>, !.player_bullets = <<>>, !.score = 0 ],
        !.ps = [ particles |-> <<>>, emitters |-> <<>> ],
        !.wave = start_wave(@, 1, t),
        !.sm = change_state(@, "PLAYING", NoData) ]

\* NotLifeGame._start_new_game at clock t
start_new_game(w, t) ==
    [ w EXCEPT
        !.player = NewPlayer,
        !.game = [ @ EXCEPT !.enemies = <<>>, !.player_bullets = <<>>,
                            !.score = 0, !.wave_number = 1 ],
        !.ps = [ particles |-> <<>>, emitters |-> <<>> ],
        !.wave = start_wave(@, 1, t),
        !.sm = change_state(@, "PLAYING", NoData) ]

\* NotLifeGame._handle_keydown
handle_keydown(w, key, t) ==
    IF key = "ESCAPE"
    THEN IF is_state(w.sm, "PLAYING")
         THEN [ w EXCEPT !.sm = change_state(@, "PAUSED", NoData) ]
         ELSE IF is_state(w.sm, "PAUSED")
         THEN [ w EXCEPT !.sm = change_state(@, "PLAYING", NoData) ]
         ELSE w
    ELSE IF key = "SPACE" /\ is_state(w.sm, "MAIN_MENU")
    THEN start_new_game(w, t)
    ELSE w

\* NotLifeGame._handle_mouse_click on the button `action` of the menu of the
\* current state: every change_state of the menus names
\* game.state_manager.GameState, which the manager does not have
handle_mouse_click(w, action, t) ==
    LET raised(v) == [ v EXCEPT !.err = "AttributeError" ]
        state == w.sm.current_state
    IN  CASE state = "MAIN_MENU" /\ action = "start" -> raised(w)
          [] state = "PAUSED" /\ action \in {"resume", "main_menu"} -> raised(w)
          [] state = "PAUSED" /\ action = "restart" -> raised(start_new_game(w, t))
          [] state = "GAME_OVER" /\ action = "main_menu" -> raised(w)
          [] state = "GAME_OVER" /\ action = "restart" -> raised(start_new_game(w, t))
          [] OTHER -> w

\* history: the step is entered in the frame's record game.steps, with the
\* number of enemies in the group as the step begins; the input step opens
\* the record of a frame
Stepped(w, step) ==
    LET entry == [ step |-> step, enemies |-> Len(w.game.enemies) ]
    IN  [ w EXCEPT !.game = [ @ EXCEPT
            !.steps = IF step = "input" THEN << entry >> ELSE Append(@, entry) ] ]

\* Player.shoot from the ship's nose at clock t
game_shoot(w, t) ==
    IF (t - w.player.last_shot_time) * UpgScale >= w.player.fire_rate
    THEN [ w EXCEPT
             !.player = [ @ EXCEPT !.last_shot_time = t ],
             !.game = [ @ EXCEPT
                 !.player_bullets =
                     Append(@, PlayerBullet(player_rect_top, w.player.damage, t)) ] ]
    ELSE w

\* NotLifeGame._handle_continuous_input with the keys held
handle_continuous_input(w, keys, t) ==
    IF is_state(w.sm, "PLAYING") /\ w.player # Idle
    THEN LET v == Stepped(w, "input")
         IN  IF keys = "SPACE" THEN game_shoot(v, t) ELSE v
    ELSE w

\* the calls of _update_playing after the player test, in the order of two
\* of them exchanged: the wave system before the spawn system
PlayingStepsWaveBeforeSpawn ==
    << "player", "enemies", "player_bullets", "particles", "wave", "spawn",
       "collisions", "cleanup", "death_check" >>

\* the calls of _update_playing after the player test, in their order
PlayingSteps ==
    << "player", "enemies", "player_bullets", "particles", "spawn", "wave",
       "collisions", "cleanup", "death_check" >>

\* one call of _update_playing at clock t: the worlds that can result.  No
\* sprite of one group overlaps a sprite of another, so check_collisions
\* calls no handler.
playing_step(step, w, delta_time, t) ==
    LET v == Stepped(w, step)
    IN  CASE step = "player" ->
               { [ v EXCEPT !.player = player_update(@, delta_time, t) ] }
          [] step = "enemies" ->
               { [ v EXCEPT !.game = [ @ EXCEPT !.enemies = u.kept ] ] :
                   u \in enemies_update(w.game.enemies) }
          [] step = "player_bullets" ->
               { [ v EXCEPT !.game = [ @ EXCEPT
                       !.player_bullets = player_bullets_update(@, delta_time, t) ] ] }
          [] step = "particles" ->
               { [ v EXCEPT !.ps = q ] : q \in particle_system_update(w.ps, delta_time) }
          [] step = "spawn" ->
               { [ v EXCEPT
                     !.spawn = r.spawn,
                     !.game = [ @ EXCEPT
                         !.enemies = IF r.spawned
                                     THEN @ \o spawn_random(w.game.next_id, "SCOUT")
                                     ELSE @,
                         !.next_id = IF r.spawned THEN @ + 1 ELSE @ ] ] :
                   r \in spawn_update(w.spawn, delta_time, Len(w.game.enemies),
                                      w.game.wave_number) }
          [] step = "wave" ->
               LET wu == wave_update(w.wave, delta_time, w.game.score,
                                     Len(w.game.enemies))
               IN  { [ v EXCEPT !.wave = wu.wave, !.err = wu.err,
                                !.game = [ @ EXCEPT !.score = wu.score ] ] }
          [] step = "collisions" -> { v }
          [] step = "cleanup" ->
               { [ v EXCEPT !.game = [ @ EXCEPT
                       !.enemies = cleanup_enemies(@).kept,
                       !.player_bullets = cleanup_bullets(@) ] ] }
          [] step = "death_check" ->
               { IF ~(w.player.health > 0)
                 THEN [ v EXCEPT !.sm = change_state(@, "GAME_OVER",
                                            Data({ <<"score", w.game.score>> })) ]
                 ELSE v }

\* the calls `steps` one after the other, up to the first that raises
RECURSIVE run_steps(_, _, _, _)
run_steps(steps, w, delta_time, t) ==
    IF steps = <<>> \/ w.err # "none" THEN { w }
    ELSE UNION { run_steps(Tail(steps), v, delta_time, t) :
                   v \in playing_step(Head(steps), w, delta_time, t) }

\* NotLifeGame._update_playing at clock t: the worlds that can result
update_playing(w, delta_time, t) ==
    IF w.player = Idle THEN { w }
    ELSE run_steps(PlayingSteps, w, delta_time, t)

\* _update running the play update in every state
update_ungated(w, delta_time, t) == update_playing(w, delta_time, t)

\* NotLifeGame._update at clock t; upgrade_menu.update touches the menu only
update(w, delta_time, t) ==
    IF w.sm.current_state = "PLAYING" THEN update_playing(w, delta_time, t) ELSE { w }

(***************************************************************************)
(* The frames of the main loop                                             *)
(***************************************************************************)
World ==
    [ sm |-> sm, player |-> player, game |-> game, ps |-> ps, spawn |-> spawn,
      wave |-> wave, err |-> err ]

Becomes(w) ==
    /\ sm' = w.sm /\ player' = w.player /\ game' = w.game /\ ps' = w.ps
    /\ spawn' = w.spawn /\ wave' = w.wave /\ err' = w.err

GameInit ==
    /\ now = 0
    /\ sm = NewGame.sm /\ player = NewGame.player /\ game = NewGame.game
    /\ ps = NewGame.ps /\ spawn = NewGame.spawn /\ wave = NewGame.wave
    /\ err = NewGame.err
    /\ last = NoOp
    /\ missile = Idle

GameKeydown ==
    /\ err = "none"
    /\ game.pc = "events"
    /\ \E key \in PressedKeys :
          /\ Becomes(handle_keydown(World, key, now))
          /\ last' = [ op |-> "handle_keydown", arg |-> 0, kind |-> key, ret |-> FALSE ]
    /\ UNCHANGED <<now, missile>>

GameMouseClick ==
    /\ err = "none"
    /\ game.pc = "events"
    /\ \E action \in Buttons :
          /\ Becomes(handle_mouse_click(World, action, now))
          /\ last' = [ op |-> "handle_mouse_click", arg |-> 0, kind |-> action,
                       ret |-> FALSE ]
    /\ UNCHANGED <<now, missile>>

GameContinuousInput ==
    /\ err = "none"
    /\ game.pc = "events"
    /\ \E keys \in HeldKeys :
       \E w \in { handle_continuous_input(World, keys, now) } :
          /\ Becomes([ w EXCEPT !.game = [ @ EXCEPT !.pc = "update" ] ])
          /\ last' = [ op |-> "handle_continuous_input", arg |-> 0, kind |-> keys,
                       ret |-> is_state(sm, "PLAYING") ]
    /\ UNCHANGED <<now, missile>>

\* _update, and the clock.tick that opens the next frame
GameUpdate ==
    /\ err = "none"
    /\ game.pc = "update"
    /\ \E delta_time \in GameDeltaTimes :
       \E w \in update(World, delta_time, now) :
          /\ now + delta_time <= MaxGameTime
          /\ Becomes([ w EXCEPT !.game = [ @ EXCEPT !.pc = "events" ] ])
          /\ last' = [ op |-> "update", arg |-> delta_time, kind |-> last.kind,
                       ret |-> is_state(sm, "PLAYING") ]
          /\ now' = now + delta_time
    /\ UNCHANGED missile

GameNext == GameKeydown \/ GameMouseClick \/ GameContinuousInput \/ GameUpdate

SpecGame == GameInit /\ [][GameNext]_vars

\* C14: when the current state is not PLAYING, _handle_continuous_input and
\* _update run no gameplay system: the player, the enemies, the bullets, the
\* particles, the spawn system, the wave system and the score are as they
\* were before the step.
C14_NoGameplayOutsidePlaying ==
    [][ (game'.pc # game.pc /\ ~is_state(sm, "PLAYING"))
        => /\ player' = player
           /\ game'.enemies = game.enemies
           /\ game'.player_bullets = game.player_bullets
           /\ game'.score = game.score
           /\ ps' = ps /\ spawn' = spawn /\ wave' = wave ]_vars

\* a paused frame with SPACE held, a bullet in flight, the wave timer and the
\* spawn timer under way: its input handling and its update have run
C14_Witness ==
    /\ last.op = "update" /\ last.kind = "SPACE" /\ ~last.ret
    /\ is_state(sm, "PAUSED")
    /\ Len(game.player_bullets) > 0
    /\ wave.wave_timer > 0 /\ spawn.spawn_timer > 0
    /\ now - player.last_shot_time >= 2 * PLAYER_SHOOT_COOLDOWN

\* C22: current_wave is 1 right after a game start (the SPACE key in the
\* main menu, a restart click) and never decreases afterwards; whenever the
\* state is PLAYING, the wave system's current_wave equals the wave_number
\* the game hands to the spawn system.
C22_WaveNumberInStep ==
    /\ [](is_state(sm, "PLAYING") => wave.current_wave = game.wave_number)
    /\ [][ /\ wave'.current_wave >= wave.current_wave
           /\ ((game.pc = "events" /\ game'.pc = "events"
                 /\ \/ last'.kind = "SPACE" /\ is_state(sm, "MAIN_MENU")
                    \/ last'.kind = "restart" /\ sm.current_state \in {"PAUSED", "GAME_OVER"})
                => (wave'.current_wave = 1 /\ wave'.wave_timer = 0
                    /\ wave'.is_wave_active)) ]_vars

\* a game that was started, played, paused and resumed is in play with the
\* wave timer under way
C22_Witness ==
    /\ last.op = "update" /\ last.ret
    /\ is_state(sm, "PLAYING") /\ sm.previous_state = "PAUSED"
    /\ wave.current_wave = 1 /\ game.wave_number = 1
    /\ wave.wave_timer > 0

\* the names of the steps the last frame of play ran, in order
C23_StepNames == [ i \in 1..Len(game.steps) |-> game.steps[i].step ]

\* the number of enemies the step of the last frame found in the group
C23_Found(step) ==
    LET i == CHOOSE j \in 1..Len(game.steps) : game.steps[j].step = step
    IN  game.steps[i].enemies

\* C23: every frame of play runs, each once and in this order: the input to
\* the player, the updates of player, enemies, bullets and particles, the
\* spawn system, the wave system, the collision system, the purge of
\* off-screen sprites and the player-death check; an enemy spawned in the
\* frame is in the group when the wave system and the collision system run.
C23_FrameOrder ==
    /\ []((last.op = "update" /\ last.ret) =>
            C23_StepNames = << "input", "player", "enemies", "player_bullets",
                               "particles", "spawn", "wave", "collisions",
                               "cleanup", "death_check" >>)
    /\ [][ (last'.op = "update" /\ last'.ret /\ game'.next_id > game.next_id) =>
              (/\ C23_Found("wave")' = C23_Found("spawn")' + 1
               /\ C23_Found("collisions")' = C23_Found("spawn")' + 1) ]_vars

\* a frame of play has spawned an enemy, and the wave system and the
\* collision system found it in the group
C23_Witness ==
    /\ last.op = "update" /\ last.ret
    /\ Len(game.steps) = 10
    /\ C23_Found("spawn") = 0 /\ C23_Found("wave") = 1
    /\ C23_Found("collisions") = 1 /\ C23_Found("cleanup") = 1
    /\ game.next_id > 1

\* C36: the PLAYING frame that ends with the player's health <= 0 ends in
\* GAME_OVER with the score as payload, so at a frame boundary in PLAYING
\* the player exists with health > 0; and the game can leave PLAYING for
\* GAME_OVER and for MAIN_MENU: the main-menu button of the pause menu and
\* of the game-over menu, the code's only ways to MAIN_MENU, lead there.
C36_GameEnds ==
    /\ [](game.pc = "events" /\ is_state(sm, "PLAYING")
            => player # Idle /\ player.health > 0)
    /\ [][ (last'.op = "update" /\ is_state(sm, "PLAYING") /\ player'.health <= 0)
             => /\ is_state(sm', "GAME_OVER")
                /\ sm'.state_data = { <<"score", game'.score>> } ]_vars
    /\ [][ (/\ last'.op = "handle_mouse_click" /\ last'.kind = "main_menu"
            /\ sm.current_state \in {"PAUSED", "GAME_OVER"})
             => err' = "none" /\ is_state(sm', "MAIN_MENU") ]_vars

\* the two ends of a game the code can actually come to: GAME_OVER is never
\* the state, and once a game was started MAIN_MENU is never the state again
C36_NoWayOut ==
    /\ sm.current_state # "GAME_OVER"
    /\ sm.previous_state # "None" => sm.current_state # "MAIN_MENU"

\* what is left of the player's shot cooldown at the clock of the state,
\* in the units of fire_rate
C37_Cooldown == Max(0, player.fire_rate - (now - player.last_shot_time) * UpgScale)

\* what is left of the player's invulnerability window, ms
C37_Window ==
    IF player.invulnerable
    THEN Max(0, PLAYER_INVULNERABILITY_TIME - (now - player.last_hit_time))
    ELSE 0

\* what is left of each player bullet's lifetime, ms
C37_Lifetimes ==
    [ i \in 1..Len(game.player_bullets) |->
        BULLET_LIFETIME - (now - game.player_bullets[i].spawn_time) ]

\* C37: a frame spent in PAUSED advances no gameplay timer: the wave timer,
\* what is left of the invulnerability window, of the shot cooldown and of
\* every bullet's lifetime are after the frame what they were before it.
C37_PauseFreezesTimers ==
    [][ (last'.op = "update" /\ is_state(sm, "PAUSED") /\ is_state(sm', "PAUSED"))
          => /\ wave'.wave_timer = wave.wave_timer
             /\ C37_Window' = C37_Window
             /\ C37_Cooldown' = C37_Cooldown
             /\ C37_Lifetimes' = C37_Lifetimes ]_vars

(***************************************************************************)
(* entities/enemy.py: Enemy._update_shooting and Enemy.shoot               *)
(*                                                                         *)
(* A Scout at a fixed place, updated with the centre of the player's rect  *)
(* as the caller hands it in.  Timers are in ms.  game.bullets counts the  *)
(* EnemyBullet objects shoot has constructed, and game.enemy_bullets is    *)
(* the game's enemy-bullet group, the one check_collisions is handed:      *)
(* shoot keeps its bullet in a local variable and adds it to no group.     *)
(***************************************************************************)
MaxShootTime == 6000

\* the centre of the enemy's rect
ShooterPosition == <<600, 300>>

\* random.uniform(0, fire_rate / 1000) of Enemy.__init__, ms
CooldownJitters == {0, 1000, 2000}

ShootDeltaTimes == {500, 1000}

\* the centres of the player's rect tried: at and next to the corridor's
\* edges, above, level with and below the enemy
PlayerCentres ==
    { <<ShooterPosition[1] + dx, ShooterPosition[2] + dy>> :
        dx \in {-100, -99, 0, 99, 100}, dy \in {-50, 0, 50} }

\* Enemy.shoot at clock t: the enemy afterwards and whether a bullet was made
enemy_shoot(e, t) ==
    IF t - e.last_shot_time >= e.fire_rate
    THEN [ enemy |-> [ e EXCEPT !.last_shot_time = t ], fired |-> TRUE ]
    ELSE [ enemy |-> e, fired |-> FALSE ]

\* Enemy._update_shooting with the player's centre at clock t
update_shooting(e, delta_time, centre, t) ==
    LET cooled == [ e EXCEPT !.shot_cooldown = @ - delta_time ]
    IN  IF /\ cooled.shot_cooldown <= 0
           /\ centre[1] - 100 < e.x /\ e.x < centre[1] + 100
           /\ centre[2] < e.y
        THEN LET s == enemy_shoot(cooled, t)
             IN  [ enemy |-> [ s.enemy EXCEPT !.shot_cooldown = e.fire_rate ],
                   called |-> TRUE, fired |-> s.fired ]
        ELSE [ enemy |-> cooled, called |-> FALSE, fired |-> FALSE ]

ShootingInit ==
    /\ now = 0
    /\ \E jitter \in CooldownJitters :
          game = [ enemy |-> [ x |-> ShooterPosition[1], y |-> ShooterPosition[2],
                               fire_rate |-> EnemyConfig("SCOUT").fire_rate,
                               damage |-> EnemyConfig("SCOUT").damage,
                               shot_cooldown |-> jitter, last_shot_time |-> 0 ],
                   bullets |-> 0, enemy_bullets |-> <<>> ]
    /\ last = [ op |-> "init", arg |-> 0, kind |-> "", ret |-> FALSE,
                centre |-> ShooterPosition ]
    /\ err = "none"
    /\ player = Idle /\ ps = Idle /\ wave = Idle /\ spawn = Idle /\ missile = Idle
    /\ sm = Idle

\* one Enemy.update as far as the shooting goes
ShootingUpdate ==
    \E delta_time \in ShootDeltaTimes : \E centre \in PlayerCentres :
        /\ now + delta_time <= MaxShootTime
        /\ now' = now + delta_time
        /\ \E r \in { update_shooting(game.enemy, delta_time, centre, now + delta_time) } :
              /\ game' = [ enemy |-> r.enemy,
                           bullets |-> IF r.fired THEN 1 ELSE 0,
                           enemy_bullets |-> game.enemy_bullets ]
              /\ last' = [ op |-> "update_shooting", arg |-> delta_time,
                           kind |-> IF r.called THEN "shoot" ELSE "", ret |-> r.fired,
                           centre |-> centre ]
        /\ UNCHANGED <<player, err, ps, wave, spawn, missile, sm>>

ShootingNext == ShootingUpdate

SpecShooting == ShootingInit /\ [][ShootingNext]_vars

\* C24: an enemy fires only in an update in which its cooldown has run out,
\* the player is within 100 units of it horizontally and the player is below
\* it (the player's y is the greater); the cooldown goes back to fire_rate
\* only when a shot is fired.
C24_FiresOnlyAtPlayerBelow ==
    [][ last'.op = "update_shooting" =>
          /\ last'.ret =>
                /\ game.enemy.shot_cooldown - last'.arg <= 0
                /\ last'.centre[1] - 100 < game.enemy.x
                /\ game.enemy.x < last'.centre[1] + 100
                /\ last'.centre[2] > game.enemy.y
          /\ game'.enemy.shot_cooldown = game.enemy.fire_rate => last'.ret ]_vars

\* C39: when an enemy fires, an EnemyBullet carrying the enemy's damage is
\* added to the enemy-bullet group that collision pass 2 tests against the
\* player.
C39_ShotEntersGroup ==
    [][ (last'.op = "update_shooting" /\ last'.ret) =>
          /\ Len(game'.enemy_bullets) = Len(game.enemy_bullets) + 1
          /\ game'.enemy_bullets[Len(game'.enemy_bullets)].damage = game.enemy.damage ]_vars

(***************************************************************************)
(* A straight bullet in its group (entities/bullet.py)                     *)
(*                                                                         *)
(* `missile` holds the one bullet; alive is its membership of the group.   *)
(* Player bullets fly up at BULLET_SPEED, enemy bullets down at 0.8 of     *)
(* it; Bullet.__init__ takes any direction, and the sideways ones are      *)
(* here for the left and right edges.  The clock runs on in the frames of  *)
(* a state other than PLAYING, in which the groups are not updated.        *)
(***************************************************************************)
MaxBulletTime == 3000
BulletDeltaTimes == {250, 500}
BulletStarts == { <<177, 354>>, <<1023, 374>>, <<600, 400>> }

\* Bullet.__init__ at clock t; the speed is in hundredths of a pixel a frame
StraightBullet(position, heading, speed, t) ==
    [ alive |-> TRUE, position |-> position, heading |-> heading,
      speed |-> speed, spawn_time |-> t ]

\* PlayerBullet.__init__, EnemyBullet.__init__ and the sideways Bullets
BulletsFired(position, t) ==
    { StraightBullet(position, 2, BULLET_SPEED * 100, t),
      StraightBullet(position, 6, (BULLET_SPEED * 8 * 100) \div 10, t),
      StraightBullet(position, 0, BULLET_SPEED * 100, t),
      StraightBullet(position, 4, BULLET_SPEED * 100, t) }

BulletInit ==
    /\ now = 0
    /\ \E position \in BulletStarts : missile \in BulletsFired(position, 0)
    /\ last = NoOp
    /\ err = "none"
    /\ player = Idle /\ ps = Idle /\ wave = Idle /\ game = Idle /\ spawn = Idle /\ sm = Idle

\* a PLAYING frame: the group calls the update of the bullet it holds
BulletUpdate ==
    \E dt \in BulletDeltaTimes :
        /\ missile.alive
        /\ now + dt <= MaxBulletTime
        /\ now' = now + dt
        /\ missile' = bullet_update(missile, dt, now + dt)
        /\ last' = [ op |-> "bullet_update", arg |-> dt, kind |-> "", ret |-> FALSE ]
        /\ UNCHANGED <<player, err, ps, wave, game, spawn, sm>>

\* a frame of another state: Game.update returns before the groups
BulletNotStepped ==
    \E dt \in BulletDeltaTimes :
        /\ missile.alive
        /\ now + dt <= MaxBulletTime
        /\ now' = now + dt
        /\ last' = [ op |-> "not_stepped", arg |-> dt, kind |-> "", ret |-> FALSE ]
        /\ UNCHANGED <<player, err, ps, wave, game, spawn, missile, sm>>

BulletNext == BulletUpdate \/ BulletNotStepped

SpecBullet == BulletInit /\ [][BulletNext]_vars

\* the unit direction of the bullet before the step
C30_Direction ==
    CASE missile.heading = 0 -> <<1, 0>>
      [] missile.heading = 2 -> <<0, -1>>
      [] missile.heading = 4 -> <<-1, 0>>
      [] missile.heading = 6 -> <<0, 1>>

\* speed * dt * 60 of the step, in pixels
C30_Distance == (missile.speed * last'.arg * 60) \div 100000

\* the bullet's 6 x 12 rectangle after the step is beyond one of the edges
C30_OutsideAfter ==
    \/ missile'.position[1] + 3 < 0
    \/ missile'.position[1] - 3 > 1200
    \/ missile'.position[2] + 6 < 0
    \/ missile'.position[2] - 6 > 800

\* C30: an update moves a straight bullet by direction * speed * dt * 60
\* and leaves its direction and speed alone; the bullet leaves its group in
\* that update exactly when more than its lifetime of 2000 ms has passed
\* since it was made or its rectangle lies beyond one of the four screen
\* edges, so no bullet is in a group after an update that came later than
\* its lifetime.
C30_StraightBullet ==
    [][ last'.op = "bullet_update" =>
          /\ missile'.position[1] = missile.position[1] + C30_Direction[1] * C30_Distance
          /\ missile'.position[2] = missile.position[2] + C30_Direction[2] * C30_Distance
          /\ missile'.heading = missile.heading
          /\ missile'.speed = missile.speed
          /\ missile'.spawn_time = missile.spawn_time
          /\ missile'.alive = ~(now' - missile.spawn_time > 2000 \/ C30_OutsideAfter)
          /\ (missile'.alive => now' - missile'.spawn_time <= 2000) ]_vars

\* an update has taken an expired bullet that is still on the screen out of
\* its group
C30_Witness ==
    /\ last.op = "bullet_update"
    /\ ~missile.alive
    /\ now - missile.spawn_time > 2000
    /\ missile.position[1] + 3 >= 0 /\ missile.position[1] - 3 <= 1200
    /\ missile.position[2] + 6 >= 0 /\ missile.position[2] - 6 <= 800

\* an update has taken a bullet that left the screen out of its group
\* before its lifetime was over
C30_OutsideWitness ==
    /\ last.op = "bullet_update"
    /\ ~missile.alive
    /\ now - missile.spawn_time <= 2000

(***************************************************************************)
(* The fire key held over a run of short frames (entities/player.py)       *)
(*                                                                         *)
(* game.player_bullets is the group Player.shoot adds to; a bullet keeps   *)
(* the clock of its making in spawn_time.  The player is a new one, with   *)
(* fire_rate 150 ms, or one that bought the fire_rate upgrade once, with   *)
(* 127.5 ms.                                                               *)
(***************************************************************************)
MaxFireTime == 600
FireDeltaTimes == {50, 100}

\* a player after one level and the fire_rate upgrade
QuickPlayer == apply_upgrade(add_experience(NewPlayer, LevelThreshold(1)), "fire_rate").p

FireInit ==
    /\ now = 0
    /\ player \in {NewPlayer, QuickPlayer}
    /\ game = [ player_bullets |-> <<>>, next_id |-> 1 ]
    /\ last = NoOp
    /\ err = "none"
    /\ ps = Idle /\ wave = Idle /\ spawn = Idle /\ missile = Idle /\ sm = Idle

\* one Player.shoot call at the clock of the frame
FireShot ==
    /\ LET r == shoot(player, game.player_bullets, game.next_id, now)
       IN  /\ player' = r.player
           /\ game' = [ player_bullets |-> r.player_bullets,
                        next_id |-> IF r.player_bullets = game.player_bullets
                                    THEN game.next_id ELSE game.next_id + 1 ]
           /\ last' = [ op |-> "shoot", arg |-> 0, kind |-> "",
                        ret |-> r.player_bullets # game.player_bullets ]
    /\ UNCHANGED <<now, err, ps, wave, spawn, missile, sm>>

\* the clock of the next frame
FireTick ==
    \E dt \in FireDeltaTimes :
        /\ now + dt <= MaxFireTime
        /\ now' = now + dt
        /\ last' = [ op |-> "tick", arg |-> dt, kind |-> "", ret |-> FALSE ]
        /\ UNCHANGED <<player, err, ps, wave, game, spawn, missile, sm>>

FireNext == FireShot \/ FireTick

SpecFire == FireInit /\ [][FireNext]_vars

\* C35: a shoot call adds at most one bullet; it adds none, and changes
\* nothing of the player, when less than fire_rate has passed since the
\* last bullet was fired, and otherwise adds one carrying the player's
\* damage and stamps last_shot_time; any two bullets of the group were made
\* at least fire_rate apart.
C35_RateLimitedFire ==
    /\ [](game # Idle =>
            \A i, j \in 1..Len(game.player_bullets) :
                i < j => (game.player_bullets[j].spawn_time
                            - game.player_bullets[i].spawn_time) * UpgScale >= player.fire_rate)
    /\ [][ last'.op = "shoot" =>
             IF (now - player.last_shot_time) * UpgScale < player.fire_rate
             THEN /\ player' = player
                  /\ game'.player_bullets = game.player_bullets
             ELSE /\ Len(game'.player_bullets) = Len(game.player_bullets) + 1
                  /\ SubSeq(game'.player_bullets, 1, Len(game.player_bullets))
                        = game.player_bullets
                  /\ game'.player_bullets[Len(game'.player_bullets)].damage = player.damage
                  /\ game'.player_bullets[Len(game'.player_bullets)].spawn_time = now
                  /\ player' = [ player EXCEPT !.last_shot_time = now ] ]_vars

\* a second shot tried 100 ms after the first has just been refused
C35_Witness ==
    /\ last.op = "shoot" /\ ~last.ret
    /\ Len(game.player_bullets) = 1
    /\ now - player.last_shot_time = 100

====
